---- MODULE Spec2Model ----
(***************************************************************************)
(* alx - alias manager for bash, zsh and fish.                             *)
(*                                                                         *)
(* Strings are sequences of one-character strings, so that splitting,      *)
(* trimming, escaping and parsing are computed character by character.     *)
(* The atom BadByte stands for a byte sequence that is not valid UTF-8.    *)
(***************************************************************************)
EXTENDS Integers, Sequences, FiniteSets, TLC

VARIABLES
    envShell,      \* the SHELL environment variable: [present, value]
    unix,          \* TRUE on a cfg(unix) build
    psOk,          \* TRUE when the `ps` program can be spawned
    selfComm,      \* command name of the alx process in the process table
    parentComm,    \* command name of the parent process of alx
    detectResult,  \* what detect() returned
    psQueried,     \* which process detect() asked the process table about
    dpc,           \* position of the detection run
    hshell,        \* the dialect whose handler is in use
    records,       \* the aliases handed to generate_aliases_file
    config,        \* the chunks the configuration file is made of
    fileText,      \* the text of a shell configuration file
    generated,     \* the text generate_aliases_file returned
    parsed,        \* the (name, command) pairs the parser returned
    hpc,           \* position of the handler run
    catalog,       \* the aliases persisted in aliases.toml, in file order
    shellFile,     \* shell/aliases.sh: [exists, text]
    shellDirExists,\* TRUE when the shell/ directory of the config dir exists
    cmdResult,     \* what the last command returned
    lastCmd,       \* the last command run: [op, removed]
    cmdInput,      \* what the last command was given: [name, command, read, entries, names]
    candidate,     \* the shell name handed to parse_shell_name
    nameResult,    \* what parse_shell_name returned
    path,          \* the path handed to detect_from_path
    pathResult,    \* what detect_from_path returned
    ppc,           \* position of the name or path run
    store,         \* AliasStore.aliases
    storeCall,     \* the last AliasStore method called: [op, arg]
    storeRet,      \* what that method returned
    proc,          \* the alx processes running add side by side: [pc, name, store, result]
    initialized,   \* TRUE when the config directory and config.toml exist
    rcFiles,       \* the shell config file of each dialect: [exists, text]
    initCall       \* the last init: [shell, confirmed, result, wrote, already]

dvars == <<envShell, unix, psOk, selfComm, parentComm, detectResult, psQueried, dpc>>

hvars == <<hshell, records, config, fileText, generated, parsed, hpc>>

cvars == <<catalog, shellFile, shellDirExists, cmdResult, lastCmd, cmdInput>>

pvars == <<candidate, nameResult, path, pathResult, ppc>>

svars == <<store, storeCall, storeRet>>

kvars == <<proc>>

ivars == <<initialized, rcFiles, initCall>>

vars == <<dvars, hvars, cvars, pvars, svars, kvars, ivars>>

----------------------------------------------------------------------------
(* String helpers (Rust std::str)                                          *)

BadByte == "<ff>"

Whitespace == {" ", "\t", "\n", "\r"}

Drop(s, n) == SubSeq(s, n + 1, Len(s))

\* the sequences over S of length at most n
SeqsUpTo(S, n) == UNION { [1..k -> S] : k \in 0..n }

StartsWith(s, p) == Len(s) >= Len(p) /\ SubSeq(s, 1, Len(p)) = p

\* str::contains
Contains(s, sub) == \E k \in 0..(Len(s) - Len(sub)) : SubSeq(s, k + 1, k + Len(sub)) = sub

\* Option<T>
None == [some |-> FALSE, value |-> <<>>]
Some(v) == [some |-> TRUE, value |-> v]

RECURSIVE TrimStart(_)
TrimStart(s) ==
    IF s # <<>> /\ Head(s) \in Whitespace THEN TrimStart(Tail(s)) ELSE s

RECURSIVE TrimEnd(_)
TrimEnd(s) ==
    IF s # <<>> /\ s[Len(s)] \in Whitespace
    THEN TrimEnd(SubSeq(s, 1, Len(s) - 1)) ELSE s

Trim(s) == TrimEnd(TrimStart(s))

\* the lines, each ended by a line feed
RECURSIVE JoinLines(_)
JoinLines(lines) ==
    IF lines = <<>> THEN <<>> ELSE Head(lines) \o <<"\n">> \o JoinLines(Tail(lines))

\* index of the last occurrence of character c in s, 0 when there is none
RECURSIVE LastIndexOf(_, _)
LastIndexOf(s, c) ==
    IF s = <<>> THEN 0
    ELSE IF s[Len(s)] = c THEN Len(s)
    ELSE LastIndexOf(SubSeq(s, 1, Len(s) - 1), c)

LastSegment_whole(s) == s

\* s.split(c): the pieces of s between the occurrences of character c
RECURSIVE Split(_, _)
Split(s, c) ==
    LET i == LastIndexOf(s, c) IN
    IF i = 0 THEN <<s>>
    ELSE Append(Split(SubSeq(s, 1, i - 1), c), Drop(s, i))

\* s.split('/').next_back(): the text after the last '/', the whole of s
\* when it has no '/'; split always yields at least one piece
LastSegment(s) == Drop(s, LastIndexOf(s, "/"))

----------------------------------------------------------------------------
(* shell/mod.rs, shell/detector.rs                                         *)

BASH == <<"b", "a", "s", "h">>
ZSH  == <<"z", "s", "h">>
FISH == <<"f", "i", "s", "h">>

ShellType == {"Bash", "Zsh", "Fish"}

as_str(shell) ==
    CASE shell = "Bash" -> BASH
      [] shell = "Zsh"  -> ZSH
      [] shell = "Fish" -> FISH

Ok(shell) == [kind |-> "Ok", shell |-> shell, name |-> <<>>]
UnsupportedShell(name) == [kind |-> "UnsupportedShell", shell |-> "none", name |-> name]
ShellDetectionFailed == [kind |-> "ShellDetectionFailed", shell |-> "none", name |-> <<>>]

is_supported_prefix(shell) ==
    \E n \in {BASH, ZSH, FISH} : Len(shell) >= Len(n) /\ SubSeq(shell, 1, Len(n)) = n

is_supported(shell) == shell \in {BASH, ZSH, FISH}

parse_shell_name(name) ==
    IF ~is_supported(name) THEN UnsupportedShell(name)
    ELSE CASE name = BASH -> Ok("Bash")
           [] name = ZSH  -> Ok("Zsh")
           [] name = FISH -> Ok("Fish")
           [] OTHER       -> [kind |-> "unreachable", shell |-> "none", name |-> name]

\* std::env::var: Ok only for a variable that is present and valid Unicode
env_var(env) ==
    IF env.present /\ \A i \in 1..Len(env.value) : env.value[i] # BadByte
    THEN [ok |-> TRUE, value |-> env.value]
    ELSE [ok |-> FALSE, value |-> <<>>]

\* the pid handed to `ps -p`: std::process::id() is the pid of alx itself
queried_pid == "self"

\* stdout of `ps -p <pid> -o comm=`
ps_comm(pid, self, parent) ==
    (IF pid = "self" THEN self ELSE parent) \o <<"\n">>

\* Option<ShellType>: "none" or a shell
detect_from_parent(ok, self, parent) ==
    IF ~ok THEN "none"
    ELSE LET r == parse_shell_name(Trim(ps_comm(queried_pid, self, parent)))
         IN  IF r.kind = "Ok" THEN r.shell ELSE "none"

detect_processFirst(env, isUnix, ok, self, parent) ==
    LET p == detect_from_parent(ok, self, parent)
        v == env_var(env) IN
    IF isUnix /\ p # "none" THEN [result |-> Ok(p), queried |-> queried_pid]
    ELSE IF v.ok
    THEN [result |-> parse_shell_name(LastSegment(v.value)),
          queried |-> IF isUnix /\ ok THEN queried_pid ELSE "none"]
    ELSE [result |-> ShellDetectionFailed,
          queried |-> IF isUnix /\ ok THEN queried_pid ELSE "none"]

\* the result of detect() and the process it looked up, if any
detect(env, isUnix, ok, self, parent) ==
    LET v == env_var(env) IN
    IF v.ok
    THEN [result |-> parse_shell_name(LastSegment(v.value)), queried |-> "none"]
    ELSE IF isUnix
         THEN LET p == detect_from_parent(ok, self, parent) IN
              [result  |-> IF p # "none" THEN Ok(p) ELSE ShellDetectionFailed,
               queried |-> IF ok THEN queried_pid ELSE "none"]
         ELSE [result |-> ShellDetectionFailed, queried |-> "none"]

\* AlxError::ConfigError(message)
ConfigError(message) ==
    [kind |-> "ConfigError", shell |-> "none", name |-> <<>>, message |-> message]

\* U+FFFD, which to_string_lossy puts in the place of a byte that is not UTF-8
Replacement == "<fffd>"

\* Path::to_string_lossy
to_string_lossy(p) == [i \in 1..Len(p) |-> IF p[i] = BadByte THEN Replacement ELSE p[i]]

\* the {:?} form of a path: quoted, a byte that is not UTF-8 as \xFF
RECURSIVE DebugChars(_)
DebugChars(p) ==
    IF p = <<>> THEN <<>>
    ELSE (IF Head(p) = BadByte THEN <<"\\", "x", "F", "F">> ELSE <<Head(p)>>)
             \o DebugChars(Tail(p))

DebugPath(p) == <<"\"">> \o DebugChars(p) \o <<"\"">>

\* Path::file_name: the last component when it is a normal one; empty
\* pieces and "." are no components, ".." is not a normal one
file_name(p) ==
    LET comps == SelectSeq(Split(p, "/"), LAMBDA c : c # <<>> /\ c # <<".">>) IN
    IF comps = <<>> \/ comps[Len(comps)] = <<".", ".">> THEN None
    ELSE Some(comps[Len(comps)])

\* OsStr::to_str: None for a name that is not valid UTF-8
to_str(n) == IF \E i \in 1..Len(n) : n[i] = BadByte THEN None ELSE Some(n)

InvalidFilePath == <<"Invalid file path: ">>
CouldNotDetect == <<"Could not detect shell type from file path: ">>

detect_from_path_nameOnly(p) ==
    LET n == file_name(p)
        f == IF n.some THEN to_str(n.value) ELSE None
    IN  IF ~f.some THEN ConfigError(InvalidFilePath \o DebugPath(p))
        ELSE IF Contains(f.value, BASH) THEN Ok("Bash")
        ELSE IF Contains(f.value, ZSH) THEN Ok("Zsh")
        ELSE IF Contains(f.value, FISH) THEN Ok("Fish")
        ELSE ConfigError(CouldNotDetect \o DebugPath(p))

detect_from_path_fishFirst(p) ==
    LET n == file_name(p)
        f == IF n.some THEN to_str(n.value) ELSE None
    IN  IF ~f.some THEN ConfigError(InvalidFilePath \o DebugPath(p))
        ELSE IF Contains(f.value, FISH) \/ Contains(to_string_lossy(p), FISH)
        THEN Ok("Fish")
        ELSE IF Contains(f.value, BASH) THEN Ok("Bash")
        ELSE IF Contains(f.value, ZSH) THEN Ok("Zsh")
        ELSE ConfigError(CouldNotDetect \o DebugPath(p))

detect_from_path(p) ==
    LET n == file_name(p)
        f == IF n.some THEN to_str(n.value) ELSE None
    IN  IF ~f.some THEN ConfigError(InvalidFilePath \o DebugPath(p))
        ELSE IF Contains(f.value, BASH) THEN Ok("Bash")
        ELSE IF Contains(f.value, ZSH) THEN Ok("Zsh")
        ELSE IF Contains(f.value, FISH) \/ Contains(to_string_lossy(p), FISH)
        THEN Ok("Fish")
        ELSE ConfigError(CouldNotDetect \o DebugPath(p))


----------------------------------------------------------------------------
(* shell/bash.rs, shell/zsh.rs, shell/fish.rs: the three handlers          *)

SQ == "'"
DQ == "\""
BS == "\\"

ALIAS_KW    == <<"a", "l", "i", "a", "s", " ">>
FUNCTION_KW == <<"f", "u", "n", "c", "t", "i", "o", "n", " ">>
END_KW      == <<"e", "n", "d">>

Letters == {"a", "b", "c", "d", "e", "f", "g", "h", "i", "j", "k", "l", "m",
            "n", "o", "p", "q", "r", "s", "t", "u", "v", "w", "x", "y", "z",
            "A", "B", "F", "O"}
Digits  == {"0", "1", "2", "3", "4", "5", "6", "7", "8", "9"}

\* the four characters that stand for one single quote inside '...'
QuoteEscape == <<SQ, BS, SQ, SQ>>

RECURSIVE escape_single_quotes_backslash(_)
escape_single_quotes_backslash(command) ==
    IF command = <<>> THEN <<>>
    ELSE (IF Head(command) = SQ THEN <<BS, SQ>> ELSE <<Head(command)>>)
             \o escape_single_quotes_backslash(Tail(command))

RECURSIVE escape_single_quotes(_)
escape_single_quotes(command) ==
    IF command = <<>> THEN <<>>
    ELSE (IF Head(command) = SQ THEN QuoteEscape ELSE <<Head(command)>>)
             \o escape_single_quotes(Tail(command))

generate_alias_line_raw(shell, alias) ==
    ALIAS_KW \o alias.name
        \o (IF shell = "Fish" THEN <<" ", SQ>> ELSE <<"=", SQ>>)
        \o alias.command \o <<SQ>>

\* bash, zsh: alias NAME='COMMAND'      fish: alias NAME 'COMMAND'
generate_alias_line(shell, alias) ==
    ALIAS_KW \o alias.name
        \o (IF shell = "Fish" THEN <<" ", SQ>> ELSE <<"=", SQ>>)
        \o escape_single_quotes(alias.command) \o <<SQ>>

\* the comment block that opens a generated file
Header == <<"#", " ", "a", "l", "x", " ", "a", "l", "i", "a", "s", "e", "s", "\n", "#", " ", "g", "e", "n", "e", "r", "a", "t", "e", "d", " ", "f", "i", "l", "e", ",", " ", "d", "o", " ", "n", "o", "t", " ", "e", "d", "i", "t", "\n">>

RECURSIVE generate_lines(_, _)
generate_lines(shell, aliases) ==
    IF aliases = <<>> THEN <<>>
    ELSE generate_alias_line(shell, Head(aliases)) \o <<"\n">>
             \o generate_lines(shell, Tail(aliases))

generate_aliases_file(shell, aliases) == Header \o generate_lines(shell, aliases)

\* str::lines(): the pieces between line feeds, no empty piece after a
\* final line feed
RECURSIVE SplitLines(_)
SplitLines(text) ==
    IF text = <<>> THEN <<>>
    ELSE IF \E i \in 1..Len(text) : text[i] = "\n"
         THEN LET i == CHOOSE i \in 1..Len(text) :
                           text[i] = "\n" /\ \A j \in 1..(i - 1) : text[j] # "\n"
              IN  <<SubSeq(text, 1, i - 1)>> \o SplitLines(Drop(text, i))
         ELSE <<text>>

NoValue == [ok |-> FALSE, value |-> <<>>]

\* length of the alias name s starts with: a letter or underscore, then
\* letters, digits, underscores and hyphens; 0 when s starts with none
RECURSIVE IdentTailLen(_)
IdentTailLen(s) ==
    IF s # <<>> /\ Head(s) \in Letters \cup Digits \cup {"_", "-"}
    THEN 1 + IdentTailLen(Tail(s)) ELSE 0

IdentLen(s) ==
    IF s # <<>> /\ Head(s) \in Letters \cup {"_"} THEN 1 + IdentTailLen(Tail(s)) ELSE 0

\* s follows an opening single quote: undo '\'' up to the closing quote,
\* which must end the line
RECURSIVE unquote_single(_)
unquote_single(s) ==
    IF s = <<>> THEN NoValue
    ELSE IF Head(s) # SQ
         THEN LET r == unquote_single(Tail(s)) IN
              IF r.ok THEN [ok |-> TRUE, value |-> <<Head(s)>> \o r.value] ELSE NoValue
    ELSE IF Len(s) = 1 THEN [ok |-> TRUE, value |-> <<>>]
    ELSE IF StartsWith(s, QuoteEscape)
         THEN LET r == unquote_single(Drop(s, 4)) IN
              IF r.ok THEN [ok |-> TRUE, value |-> <<SQ>> \o r.value] ELSE NoValue
    ELSE NoValue

RECURSIVE unquote_double_quoteOnly(_)
unquote_double_quoteOnly(s) ==
    IF s = <<>> THEN NoValue
    ELSE IF Head(s) = BS /\ Len(s) >= 2 /\ s[2] = DQ
         THEN LET r == unquote_double_quoteOnly(Drop(s, 2)) IN
              IF r.ok THEN [ok |-> TRUE, value |-> <<s[2]>> \o r.value] ELSE NoValue
    ELSE IF Head(s) = DQ
         THEN IF Len(s) = 1 THEN [ok |-> TRUE, value |-> <<>>] ELSE NoValue
    ELSE LET r == unquote_double_quoteOnly(Tail(s)) IN
         IF r.ok THEN [ok |-> TRUE, value |-> <<Head(s)>> \o r.value] ELSE NoValue

\* s follows an opening double quote: undo \" and \\ up to the closing
\* quote, which must end the line
RECURSIVE unquote_double(_)
unquote_double(s) ==
    IF s = <<>> THEN NoValue
    ELSE IF Head(s) = BS /\ Len(s) >= 2 /\ s[2] \in {DQ, BS}
         THEN LET r == unquote_double(Drop(s, 2)) IN
              IF r.ok THEN [ok |-> TRUE, value |-> <<s[2]>> \o r.value] ELSE NoValue
    ELSE IF Head(s) = DQ
         THEN IF Len(s) = 1 THEN [ok |-> TRUE, value |-> <<>>] ELSE NoValue
    ELSE LET r == unquote_double(Tail(s)) IN
         IF r.ok THEN [ok |-> TRUE, value |-> <<Head(s)>> \o r.value] ELSE NoValue

parse_alias_line_lenient(line) ==
    LET t    == TrimStart(line)
        rest == Drop(t, Len(ALIAS_KW))
        n    == IdentLen(rest)
        v    == Drop(rest, n + 1)
        r    == IF v # <<>> /\ Head(v) = SQ THEN unquote_single(Tail(v))
                ELSE IF v # <<>> /\ Head(v) = DQ THEN unquote_double(Tail(v))
                ELSE [ok |-> TRUE, value |-> v]
    IN  IF ~StartsWith(t, ALIAS_KW) THEN <<>>
        ELSE IF n = 0 \/ Len(rest) <= n \/ rest[n + 1] # "=" THEN <<>>
        ELSE IF r.ok THEN << <<SubSeq(rest, 1, n), r.value>> >>
        ELSE << <<SubSeq(rest, 1, n), Tail(v)>> >>

\* the pairs (none or one) of one line of a bash or zsh file
parse_alias_line(line) ==
    LET t    == TrimStart(line)
        rest == Drop(t, Len(ALIAS_KW))
        n    == IdentLen(rest)
        v    == Drop(rest, n + 1)
        r    == IF v # <<>> /\ Head(v) = SQ THEN unquote_single(Tail(v))
                ELSE IF v # <<>> /\ Head(v) = DQ THEN unquote_double(Tail(v))
                ELSE [ok |-> TRUE, value |-> v]
    IN  IF ~StartsWith(t, ALIAS_KW) THEN <<>>
        ELSE IF n = 0 \/ Len(rest) <= n \/ rest[n + 1] # "=" THEN <<>>
        ELSE IF r.ok THEN << <<SubSeq(rest, 1, n), r.value>> >> ELSE <<>>

\* the pairs (none or one) of one alias line of a fish file
parse_fish_alias_line(line) ==
    LET t    == TrimStart(line)
        rest == Drop(t, Len(ALIAS_KW))
        n    == IdentLen(rest)
        v    == TrimStart(Drop(rest, n))
        r    == IF v # <<>> /\ Head(v) = SQ THEN unquote_single(Tail(v)) ELSE NoValue
    IN  IF ~StartsWith(t, ALIAS_KW) THEN <<>>
        ELSE IF n = 0 \/ Len(rest) <= n \/ rest[n + 1] \notin {" ", "\t"} THEN <<>>
        ELSE IF r.ok THEN << <<SubSeq(rest, 1, n), r.value>> >> ELSE <<>>

RECURSIVE ParsePosixLines(_)
ParsePosixLines(lines) ==
    IF lines = <<>> THEN <<>>
    ELSE parse_alias_line(Head(lines)) \o ParsePosixLines(Tail(lines))

\* the first word of a trimmed line
RECURSIVE FirstWord(_)
FirstWord(t) ==
    IF t = <<>> \/ Head(t) \in Whitespace THEN <<>>
    ELSE <<Head(t)>> \o FirstWord(Tail(t))

BlockOpeners == {<<"i", "f">>, <<"f", "o", "r">>, <<"w", "h", "i", "l", "e">>, <<"s", "w", "i", "t", "c", "h">>, <<"b", "e", "g", "i", "n">>, <<"f", "u", "n", "c", "t", "i", "o", "n">>}

ControlWords == BlockOpeners \cup {<<"e", "l", "s", "e">>, <<"c", "a", "s", "e">>, <<"r", "e", "t", "u", "r", "n">>, <<"a", "n", "d">>, <<"o", "r">>, <<"n", "o", "t">>}

\* `function NAME` with optional switches after the name: 0 or Len(NAME)
FunctionNameLen(line) ==
    LET t    == Trim(line)
        rest == Drop(t, Len(FUNCTION_KW))
        n    == IdentLen(rest)
    IN  IF StartsWith(t, FUNCTION_KW) /\ n > 0
           /\ (Len(rest) = n \/ rest[n + 1] \in Whitespace)
        THEN n ELSE 0

FunctionName(line) ==
    SubSeq(Drop(Trim(line), Len(FUNCTION_KW)), 1, FunctionNameLen(line))

\* index of the `end` that closes the block opened before line i, 0 if none
RECURSIVE MatchingEnd(_, _, _)
MatchingEnd(lines, i, depth) ==
    IF i > Len(lines) THEN 0
    ELSE LET t == Trim(lines[i]) IN
         IF t = END_KW
         THEN IF depth = 0 THEN i ELSE MatchingEnd(lines, i + 1, depth - 1)
         ELSE IF FirstWord(t) \in BlockOpeners THEN MatchingEnd(lines, i + 1, depth + 1)
         ELSE MatchingEnd(lines, i + 1, depth)

IsStatement(line) == Trim(line) # <<>> /\ Head(Trim(line)) # "#"

parse_function_body_first(name, body) ==
    LET stmts == SelectSeq(body, IsStatement)
    IN  IF Len(stmts) >= 1 THEN << <<name, Trim(stmts[1])>> >> ELSE <<>>

\* the pairs (none or one) of a function block with the given body lines:
\* one pair when the body is a single plain command
parse_function_body(name, body) ==
    LET stmts == SelectSeq(body, IsStatement)
        t     == Trim(stmts[1])
    IN  IF Len(stmts) = 1 /\ FirstWord(t) \notin ControlWords
           /\ \A k \in 1..Len(t) : t[k] # ";"
        THEN << <<name, t>> >> ELSE <<>>

RECURSIVE ParseFishLines(_, _)
ParseFishLines(lines, i) ==
    IF i > Len(lines) THEN <<>>
    ELSE IF FunctionNameLen(lines[i]) > 0
         THEN LET j == MatchingEnd(lines, i + 1, 0) IN
              IF j = 0 THEN <<>>
              ELSE parse_function_body(FunctionName(lines[i]), SubSeq(lines, i + 1, j - 1))
                       \o ParseFishLines(lines, j + 1)
    ELSE parse_fish_alias_line(lines[i]) \o ParseFishLines(lines, i + 1)

\* the (name, command) pairs of the alias declarations in a file's text
parse_existing(shell, text) ==
    IF shell = "Fish" THEN ParseFishLines(SplitLines(text), 1)
    ELSE ParsePosixLines(SplitLines(text))

----------------------------------------------------------------------------
(* Detection runs                                                           *)

TCSH == <<"t", "c", "s", "h">>
ALX  == <<"a", "l", "x">>
BIN  == <<"b", "i", "n">>
USR  == <<"u", "s", "r">>

\* path segments the SHELL variable is built from
Segments == {BASH, ZSH, FISH, TCSH, BIN, <<>>, <<BadByte>>}

\* number of '/'-separated segments in the SHELL values tried
MaxSegs == 3

RECURSIVE JoinPath(_)
JoinPath(segs) ==
    IF Len(segs) = 0 THEN <<>>
    ELSE IF Len(segs) = 1 THEN segs[1]
    ELSE segs[1] \o <<"/">> \o JoinPath(Tail(segs))

\* the values of the documented examples: /usr/bin/zsh and /bin/tcsh
ExampleShells == { JoinPath(<<<<>>, USR, BIN, ZSH>>), JoinPath(<<<<>>, BIN, TCSH>>) }

ShellValues ==
    { JoinPath(segs) : segs \in UNION { [1..n -> Segments] : n \in 1..MaxSegs } }
        \cup ExampleShells

\* command names found in the process table
Comms == {BASH, ZSH, FISH, TCSH, ALX, <<"-">> \o ZSH}

DetectIdle ==
    /\ envShell = [present |-> FALSE, value |-> <<>>]
    /\ unix = TRUE
    /\ psOk = TRUE
    /\ selfComm = ALX
    /\ parentComm = BASH
    /\ detectResult = ShellDetectionFailed
    /\ psQueried = "none"
    /\ dpc = "idle"

HandlerIdle ==
    /\ hshell = "Bash"
    /\ records = <<>>
    /\ config = <<>>
    /\ fileText = <<>>
    /\ generated = <<>>
    /\ parsed = <<>>
    /\ hpc = "idle"

CommandIdle ==
    /\ catalog = <<>>
    /\ shellFile = [exists |-> FALSE, text |-> <<>>]
    /\ shellDirExists = TRUE
    /\ cmdResult = "none"
    /\ lastCmd = [op |-> "none", removed |-> 0]
    /\ cmdInput = [name |-> <<>>, command |-> <<>>, read |-> FALSE, entries |-> <<>>,
                   names |-> <<>>]

PathIdle ==
    /\ candidate = <<>>
    /\ nameResult = [kind |-> "none"]
    /\ path = <<>>
    /\ pathResult = [kind |-> "none"]
    /\ ppc = "idle"

StoreIdle ==
    /\ store = <<>>
    /\ storeCall = [op |-> "none", arg |-> <<>>]
    /\ storeRet = [result |-> "none"]

ProcIdle ==
    proc = <<>>

InitIdle ==
    /\ initialized = TRUE
    /\ rcFiles = [s \in ShellType |-> [exists |-> FALSE, text |-> <<>>]]
    /\ initCall = [shell |-> "none", confirmed |-> FALSE, result |-> "none",
                   wrote |-> FALSE, already |-> FALSE]

DetectInit ==
    /\ envShell \in { [present |-> FALSE, value |-> <<>>] }
                    \cup { [present |-> TRUE, value |-> v] : v \in ShellValues }
    /\ unix \in BOOLEAN
    /\ psOk \in BOOLEAN
    /\ selfComm \in Comms
    /\ parentComm \in Comms
    /\ detectResult = ShellDetectionFailed
    /\ psQueried = "none"
    /\ dpc = "start"
    /\ HandlerIdle
    /\ CommandIdle
    /\ ProcIdle
    /\ InitIdle
    /\ PathIdle
    /\ StoreIdle

Detect ==
    /\ dpc = "start"
    /\ LET d == detect(envShell, unix, psOk, selfComm, parentComm) IN
         /\ detectResult' = d.result
         /\ psQueried' = d.queried
    /\ dpc' = "done"
    /\ UNCHANGED <<envShell, unix, psOk, selfComm, parentComm>>
    /\ UNCHANGED <<hvars, cvars, pvars, svars, kvars, ivars>>

DetectNext == Detect

SpecDetect == DetectInit /\ [][DetectNext]_vars

----------------------------------------------------------------------------
(* Runs of parse_shell_name and detect_from_path                           *)

\* characters the candidate shell names are made of
NameChars == {"b", "a", "s", "h", "z", "f", "i", "B", " "}

\* longest candidate shell name
MaxNameLen == 4

Candidates ==
    SeqsUpTo(NameChars, MaxNameLen) \cup {TCSH, <<"-">> \o ZSH, ZSH \o <<"\n">>}

HOME   == <<"h", "o", "m", "e">>
BASHRC == <<".">> \o BASH \o <<"r", "c">>
ZSHRC  == <<".">> \o ZSH \o <<"r", "c">>
NOTES  == <<"n", "o", "t", "e", "s", ".", "t", "x", "t">>
CONFIG_FISH == <<"c", "o", "n", "f", "i", "g", ".">> \o FISH

\* the components paths are built from
PathSegments ==
    {<<>>, <<".">>, <<".", ".">>, HOME, FISH, BASHRC, ZSHRC, NOTES, CONFIG_FISH,
     BASH \o ZSH, <<"r", "c", BadByte>>}

\* number of '/'-separated pieces in the paths tried
MaxPathSegs == 3

\* the documented examples: /home/u/.bashrc and /home/u/notes.txt
ExamplePaths ==
    { JoinPath(<<<<>>, HOME, <<"u">>, BASHRC>>), JoinPath(<<<<>>, HOME, <<"u">>, NOTES>>) }

Paths ==
    { JoinPath(segs) : segs \in UNION { [1..n -> PathSegments] : n \in 1..MaxPathSegs } }
        \cup ExamplePaths

PathInit ==
    /\ \/ /\ ppc = "name"
          /\ candidate \in Candidates
          /\ path = <<>>
       \/ /\ ppc = "path"
          /\ candidate = <<>>
          /\ path \in Paths
    /\ nameResult = [kind |-> "none"]
    /\ pathResult = [kind |-> "none"]
    /\ DetectIdle
    /\ HandlerIdle
    /\ CommandIdle
    /\ ProcIdle
    /\ InitIdle
    /\ StoreIdle

ParseShellName ==
    /\ ppc = "name"
    /\ nameResult' = parse_shell_name(candidate)
    /\ ppc' = "named"
    /\ UNCHANGED <<candidate, path, pathResult>>
    /\ UNCHANGED <<dvars, hvars, cvars, svars, kvars, ivars>>

DetectFromPath ==
    /\ ppc = "path"
    /\ pathResult' = detect_from_path(path)
    /\ ppc' = "pathed"
    /\ UNCHANGED <<candidate, path, nameResult>>
    /\ UNCHANGED <<dvars, hvars, cvars, svars, kvars, ivars>>

PathNext == ParseShellName \/ DetectFromPath

SpecPath == PathInit /\ [][PathNext]_vars

\* C11: a candidate shell name is accepted exactly when it is "bash", "zsh"
\* or "fish", which is exactly when is_supported holds of it; the dialect
\* returned has the candidate as its as_str, every other candidate fails
\* with UnsupportedShell carrying the candidate, and the unreachable!()
\* branch is never taken.
C11_ExactNamesOnly ==
    ppc = "named" =>
        LET exact == candidate \in {<<"b", "a", "s", "h">>, <<"z", "s", "h">>,
                                    <<"f", "i", "s", "h">>}
        IN  /\ (nameResult.kind = "Ok") <=> is_supported(candidate)
            /\ is_supported(candidate) <=> exact
            /\ nameResult.kind = "Ok" =>
                   nameResult.shell \in ShellType /\ as_str(nameResult.shell) = candidate
            /\ nameResult.kind # "Ok" =>
                   nameResult.kind = "UnsupportedShell" /\ nameResult.name = candidate
            /\ nameResult.kind # "unreachable"

C11_Witness ==
    /\ ppc = "named"
    /\ candidate = <<"f", "i", "s", "h">>
    /\ nameResult.kind = "Ok"
    /\ nameResult.shell = "Fish"

\* a candidate that only resembles a supported name is turned down
C11_RejectWitness ==
    /\ ppc = "named"
    /\ candidate = <<"B", "a", "s", "h">>
    /\ nameResult.kind = "UnsupportedShell"
    /\ nameResult.name = candidate


\* the substring occurs in the file name of the path
InName(sub) == file_name(path).some /\ Contains(file_name(path).value, sub)

\* the result is a dialect whose conventional substring occurs where
\* detect_from_path looks for it
DialectOccurs ==
    /\ pathResult.kind = "Ok"
    /\ pathResult.shell = "Bash" => InName(<<"b", "a", "s", "h">>)
    /\ pathResult.shell = "Zsh" => InName(<<"z", "s", "h">>)
    /\ pathResult.shell = "Fish" =>
           InName(<<"f", "i", "s", "h">>) \/ Contains(path, <<"f", "i", "s", "h">>)

\* the result is a ConfigError whose message names the path
PathNamed ==
    /\ pathResult.kind = "ConfigError"
    /\ (\A i \in 1..Len(path) : path[i] # BadByte) => Contains(pathResult.message, path)

\* the documented examples: /home/u/.bashrc is Bash, /home/u/notes.txt an error
PathExamples ==
    /\ path = JoinPath(<<<<>>, HOME, <<"u">>, BASHRC>>) =>
           pathResult.kind = "Ok" /\ pathResult.shell = "Bash"
    /\ path = JoinPath(<<<<>>, HOME, <<"u">>, NOTES>>) => pathResult.kind = "ConfigError"

\* C12 as stated: detect_from_path returns a dialect whose substring occurs
\* in the file name, or Fish when "fish" occurs anywhere in the path, and
\* fails with a ConfigError naming the path when none occurs.
C12_SubstringDecides ==
    ppc = "pathed" =>
        LET occurs == \/ InName(<<"b", "a", "s", "h">>)
                      \/ InName(<<"z", "s", "h">>)
                      \/ Contains(path, <<"f", "i", "s", "h">>)
        IN  /\ occurs => DialectOccurs
            /\ ~occurs => PathNamed
            /\ PathExamples

\* C12, for the paths it holds of: when the path ends in a file name that is
\* valid Unicode, detect_from_path returns a dialect whose substring occurs
\* in the file name, or Fish when "fish" occurs anywhere in the path, and
\* fails with a ConfigError naming the path when none occurs; a path without
\* such a file name fails with a ConfigError naming the path.
C12_SubstringDecidesNamedFile ==
    ppc = "pathed" =>
        LET named  == file_name(path).some
                          /\ \A i \in 1..Len(file_name(path).value) :
                                 file_name(path).value[i] # BadByte
            occurs == \/ InName(<<"b", "a", "s", "h">>)
                      \/ InName(<<"z", "s", "h">>)
                      \/ Contains(path, <<"f", "i", "s", "h">>)
        IN  /\ (named /\ occurs) => DialectOccurs
            /\ (named /\ ~occurs) => PathNamed
            /\ ~named => PathNamed
            /\ PathExamples

\* "fish" in a directory of the path decides for a file name with no
\* dialect in it
C12_Witness ==
    /\ ppc = "pathed"
    /\ path = JoinPath(<<HOME, FISH, NOTES>>)
    /\ pathResult.kind = "Ok"
    /\ pathResult.shell = "Fish"

\* the documented example /home/u/.bashrc
C12_ExampleWitness ==
    /\ ppc = "pathed"
    /\ path = JoinPath(<<<<>>, HOME, <<"u">>, BASHRC>>)
    /\ pathResult.kind = "Ok"
    /\ pathResult.shell = "Bash"

\* the file name of the path as detect_from_path reads it: the final
\* component as a str, if there is one
FileName == IF file_name(path).some THEN to_str(file_name(path).value) ELSE None

\* C24: detect_from_path resolves overlapping matches by a fixed priority:
\* a file name containing "bash" gives Bash, also below a directory whose
\* path contains "fish" and when the name contains "zsh" too; otherwise a
\* file name containing "zsh" gives Zsh; "fish" in the file name or anywhere
\* in the path decides only when the file name contains neither; a path
\* without a final file name fails with ConfigError even if "fish" occurs
\* in it.
C24_FixedPriority ==
    ppc = "pathed" =>
        LET f      == FileName
            inBash == f.some /\ Contains(f.value, <<"b", "a", "s", "h">>)
            inZsh  == f.some /\ Contains(f.value, <<"z", "s", "h">>)
            fish   == Contains(path, <<"f", "i", "s", "h">>)
        IN  /\ inBash => (pathResult.kind = "Ok" /\ pathResult.shell = "Bash")
            /\ (inZsh /\ ~inBash) => (pathResult.kind = "Ok" /\ pathResult.shell = "Zsh")
            /\ (f.some /\ ~inBash /\ ~inZsh /\ fish) =>
                   (pathResult.kind = "Ok" /\ pathResult.shell = "Fish")
            /\ (pathResult.kind = "Ok" /\ pathResult.shell = "Fish") =>
                   (f.some /\ ~inBash /\ ~inZsh /\ fish)
            /\ (f.some /\ ~inBash /\ ~inZsh /\ ~fish) => pathResult.kind = "ConfigError"
            /\ ~f.some =>
                   /\ pathResult.kind = "ConfigError"
                   /\ StartsWith(pathResult.message, InvalidFilePath)

\* a file named bashzsh below a directory fish is Bash
C24_Witness ==
    /\ ppc = "pathed"
    /\ path = JoinPath(<<HOME, FISH, BASH \o ZSH>>)
    /\ pathResult.kind = "Ok"
    /\ pathResult.shell = "Bash"

\* .zshrc below a directory fish is Zsh
C24_ZshWitness ==
    /\ ppc = "pathed"
    /\ path = JoinPath(<<<<>>, FISH, ZSHRC>>)
    /\ pathResult.kind = "Ok"
    /\ pathResult.shell = "Zsh"

\* fish/config.fish/.. has no file name and fails although fish occurs twice
C24_NoFileNameWitness ==
    /\ ppc = "pathed"
    /\ path = JoinPath(<<FISH, CONFIG_FISH, <<".", ".">>>>)
    /\ FileName = None
    /\ pathResult.kind = "ConfigError"

----------------------------------------------------------------------------
(* alias/validator.rs, alias/store.rs, command.rs                          *)

\* Alias::new, with_description, with_group (the time stamps are left out)
Alias(name, command, description, group) ==
    [name |-> name, command |-> command, description |-> description, group |-> group]

validate_name_anyFirst(name) ==
    IF name = <<>> THEN "InvalidAliasName"
    ELSE IF \E i \in 1..Len(name) : name[i] = " " THEN "InvalidAliasName"
    ELSE IF \E i \in 1..Len(name) : name[i] \notin Letters \cup Digits \cup {"_", "-"}
         THEN "InvalidAliasName"
    ELSE "Ok"

validate_name(name) ==
    IF name = <<>> THEN "InvalidAliasName"
    ELSE IF \E i \in 1..Len(name) : name[i] = " " THEN "InvalidAliasName"
    ELSE IF name[1] \notin Letters /\ name[1] # "_" THEN "InvalidAliasName"
    ELSE IF \E i \in 1..Len(name) : name[i] \notin Letters \cup Digits \cup {"_", "-"}
         THEN "InvalidAliasName"
    ELSE "Ok"

validate_command(command) ==
    IF Trim(command) = <<>> THEN "InvalidCommand" ELSE "Ok"

exists(aliases, name) == \E i \in 1..Len(aliases) : aliases[i].name = name

store_add_always(aliases, alias) ==
    [result |-> "Ok", aliases |-> Append(aliases, alias)]

\* AliasStore::add: [result, aliases]
store_add(aliases, alias) ==
    IF exists(aliases, alias.name)
    THEN [result |-> "AliasExists", aliases |-> aliases]
    ELSE [result |-> "Ok", aliases |-> Append(aliases, alias)]

\* Vec::swap_remove in the place of Vec::remove
store_remove_swap(aliases, name) ==
    IF ~exists(aliases, name)
    THEN [result |-> "AliasNotFound", aliases |-> aliases, alias |-> None]
    ELSE LET index == CHOOSE i \in 1..Len(aliases) :
                          /\ aliases[i].name = name
                          /\ \A j \in 1..(i - 1) : aliases[j].name # name
             last  == aliases[Len(aliases)]
         IN  [result  |-> "Ok",
              aliases |-> SubSeq([aliases EXCEPT ![index] = last], 1, Len(aliases) - 1),
              alias   |-> Some(aliases[index])]

\* AliasStore::remove: [result, aliases, alias], alias being the one removed
store_remove(aliases, name) ==
    IF ~exists(aliases, name)
    THEN [result |-> "AliasNotFound", aliases |-> aliases, alias |-> None]
    ELSE LET index == CHOOSE i \in 1..Len(aliases) :
                          /\ aliases[i].name = name
                          /\ \A j \in 1..(i - 1) : aliases[j].name # name
         IN  [result  |-> "Ok",
              aliases |-> SubSeq(aliases, 1, index - 1) \o SubSeq(aliases, index + 1, Len(aliases)),
              alias   |-> Some(aliases[index])]

\* char::to_lowercase of the characters in use
LowerOf(c) ==
    CASE c = "A" -> "a"
      [] c = "B" -> "b"
      [] c = "F" -> "f"
      [] c = "O" -> "o"
      [] OTHER   -> c

\* str::to_lowercase
to_lowercase(s) == [i \in 1..Len(s) |-> LowerOf(s[i])]

search_withGroup(aliases, keyword) ==
    LET k == to_lowercase(keyword) IN
    SelectSeq(aliases,
              LAMBDA a : \/ Contains(to_lowercase(a.name), k)
                         \/ Contains(to_lowercase(a.command), k)
                         \/ a.description.some /\ Contains(to_lowercase(a.description.value), k)
                         \/ a.group.some /\ Contains(to_lowercase(a.group.value), k))

\* AliasStore::search
search(aliases, keyword) ==
    LET k == to_lowercase(keyword) IN
    SelectSeq(aliases,
              LAMBDA a : \/ Contains(to_lowercase(a.name), k)
                         \/ Contains(to_lowercase(a.command), k)
                         \/ a.description.some /\ Contains(to_lowercase(a.description.value), k))

\* AliasStore::list_by_group
list_by_group(aliases, group) ==
    SelectSeq(aliases, LAMBDA a : a.group.some /\ a.group.value = group)

\* the characters in use in the order of their bytes
ByteOrder ==
    <<"\t", "\n", "\r", " ", "\"", "'", "-", "/", "0", "1", "2", "3", "4", "5", "6", "7",
      "8", "9", "=", "A", "B", "F", "O", "\\", "_", "a", "b", "c", "d", "e", "f", "g",
      "h", "i", "j", "k", "l", "m", "n", "o", "p", "q", "r", "s", "t", "u", "v", "w",
      "x", "y", "z", "|">>

ByteRank(c) == CHOOSE i \in 1..Len(ByteOrder) : ByteOrder[i] = c

\* Ord for String: byte by byte, a proper prefix first
RECURSIVE StrLess(_, _)
StrLess(a, b) ==
    IF b = <<>> THEN FALSE
    ELSE IF a = <<>> THEN TRUE
    ELSE IF Head(a) # Head(b) THEN ByteRank(Head(a)) < ByteRank(Head(b))
    ELSE StrLess(Tail(a), Tail(b))

\* x put into the sorted list q, after the elements equal to it
RECURSIVE Insert(_, _)
Insert(q, x) ==
    IF q = <<>> THEN <<x>>
    ELSE IF StrLess(x, Head(q)) THEN <<x>> \o q
    ELSE <<Head(q)>> \o Insert(Tail(q), x)

\* slice::sort
RECURSIVE Sort(_)
Sort(q) == IF q = <<>> THEN <<>> ELSE Insert(Sort(SubSeq(q, 1, Len(q) - 1)), q[Len(q)])

\* Vec::dedup: of each run of equal elements the first is kept
RECURSIVE Dedup(_)
Dedup(q) ==
    IF Len(q) < 2 THEN q
    ELSE IF q[1] = q[2] THEN Dedup(Tail(q))
    ELSE <<q[1]>> \o Dedup(Tail(q))

\* filter_map(|a| a.group.clone())
RECURSIVE GroupValues(_)
GroupValues(aliases) ==
    IF aliases = <<>> THEN <<>>
    ELSE (IF Head(aliases).group.some THEN <<Head(aliases).group.value>> ELSE <<>>)
             \o GroupValues(Tail(aliases))

groups_unsorted(aliases) == Dedup(GroupValues(aliases))

\* AliasStore::groups
groups(aliases) == Dedup(Sort(GroupValues(aliases)))

Reverse(q) == [i \in 1..Len(q) |-> q[Len(q) + 1 - i]]

sync_aliases_reversed(aliases) ==
    LET d == detect(envShell, unix, psOk, selfComm, parentComm).result IN
    IF d.kind # "Ok" THEN [result |-> d.kind, file |-> shellFile]
    ELSE IF ~shellDirExists THEN [result |-> "IoError", file |-> shellFile]
    ELSE [result |-> "Ok",
          file   |-> [exists |-> TRUE, text |-> generate_aliases_file(d.shell, Reverse(aliases))]]

sync_aliases_bash(aliases) ==
    LET d == detect(envShell, unix, psOk, selfComm, parentComm).result IN
    IF d.kind # "Ok" THEN [result |-> d.kind, file |-> shellFile]
    ELSE IF ~shellDirExists THEN [result |-> "IoError", file |-> shellFile]
    ELSE [result |-> "Ok",
          file   |-> [exists |-> TRUE, text |-> generate_aliases_file("Bash", aliases)]]

\* sync_aliases on the persisted aliases: [result, file], file being
\* shell/aliases.sh afterwards
sync_aliases(aliases) ==
    LET d == detect(envShell, unix, psOk, selfComm, parentComm).result IN
    IF d.kind # "Ok" THEN [result |-> d.kind, file |-> shellFile]
    ELSE IF ~shellDirExists THEN [result |-> "IoError", file |-> shellFile]
    ELSE [result |-> "Ok",
          file   |-> [exists |-> TRUE, text |-> generate_aliases_file(d.shell, aliases)]]

\* the input of a command that has none recorded
NoInput ==
    [name |-> <<>>, command |-> <<>>, read |-> FALSE, entries |-> <<>>, names |-> <<>>]

\* most aliases in the catalog
MaxAliases == 2

\* most names given to one remove command
MaxRemove == 2

\* alx add NAME COMMAND [-d DESCRIPTION] [-g GROUP]
Add(name, command, description, group) ==
    /\ Len(catalog) < MaxAliases
    /\ lastCmd' = [op |-> "add", removed |-> 0]
    /\ cmdInput' = [NoInput EXCEPT !.name = name]
    /\ IF validate_name(name) # "Ok"
       THEN cmdResult' = validate_name(name) /\ UNCHANGED <<catalog, shellFile>>
       ELSE IF validate_command(command) # "Ok"
       THEN cmdResult' = validate_command(command) /\ UNCHANGED <<catalog, shellFile>>
       ELSE \E a \in {store_add(catalog, Alias(name, command, description, group))} :
                IF a.result # "Ok"
                THEN cmdResult' = a.result /\ UNCHANGED <<catalog, shellFile>>
                ELSE \E y \in {sync_aliases(a.aliases)} :
                         /\ catalog' = a.aliases
                         /\ shellFile' = y.file
                         /\ cmdResult' = y.result
    /\ UNCHANGED <<shellDirExists, dvars, hvars, pvars, svars, kvars, ivars>>

RECURSIVE remove_all_untilError(_, _)
remove_all_untilError(aliases, names) ==
    IF names = <<>> THEN [aliases |-> aliases, removed |-> 0, errors |-> 0]
    ELSE LET r == store_remove(aliases, Head(names)) IN
         IF r.result # "Ok"
         THEN [aliases |-> aliases, removed |-> 0, errors |-> 1]
         ELSE LET rest == remove_all_untilError(r.aliases, Tail(names)) IN
              [aliases |-> rest.aliases, removed |-> rest.removed + 1,
               errors |-> rest.errors]

\* the store and the number of aliases removed after removing each name
RECURSIVE remove_all(_, _)
remove_all(aliases, names) ==
    IF names = <<>> THEN [aliases |-> aliases, removed |-> 0, errors |-> 0]
    ELSE LET r    == store_remove(aliases, Head(names))
             rest == remove_all(r.aliases, Tail(names))
         IN  [aliases |-> rest.aliases,
              removed |-> rest.removed + (IF r.result = "Ok" THEN 1 ELSE 0),
              errors  |-> rest.errors + (IF r.result = "Ok" THEN 0 ELSE 1)]

\* alx remove NAME...
Remove(names) ==
    \E r \in {remove_all(catalog, names)} :
        /\ lastCmd' = [op |-> "remove", removed |-> r.removed]
        /\ cmdInput' = [NoInput EXCEPT !.names = names]
        /\ IF r.removed > 0
           THEN \E y \in {sync_aliases(r.aliases)} :
                    /\ catalog' = r.aliases
                    /\ shellFile' = y.file
                    /\ cmdResult' = y.result
           ELSE /\ UNCHANGED <<catalog, shellFile>>
                /\ cmdResult' = IF r.errors > 0 THEN "ConfigError" ELSE "Ok"
        /\ UNCHANGED <<shellDirExists, dvars, hvars, pvars, svars, kvars, ivars>>

\* the index of the first alias called name (Iterator::position, find)
position(aliases, name) ==
    CHOOSE i \in 1..Len(aliases) :
        /\ aliases[i].name = name
        /\ \A j \in 1..(i - 1) : aliases[j].name # name

\* the part of edit before save: [result, aliases]
edit(aliases, name, command, description, group) ==
    IF ~exists(aliases, name) THEN [result |-> "AliasNotFound", aliases |-> aliases]
    ELSE IF command.some /\ validate_command(command.value) # "Ok"
    THEN [result |-> "InvalidCommand", aliases |-> aliases]
    ELSE LET i == position(aliases, name)
             a == aliases[i]
             b == [a EXCEPT !.command = IF command.some THEN command.value ELSE @,
                            !.description = IF description.some THEN description ELSE @,
                            !.group = IF group.some THEN group ELSE @]
         IN  [result |-> "Ok", aliases |-> [aliases EXCEPT ![i] = b]]

\* alx edit NAME [-c COMMAND] [-d DESCRIPTION] [-g GROUP]
Edit(name, command, description, group) ==
    \E e \in {edit(catalog, name, command, description, group)} :
        /\ lastCmd' = [op |-> "edit", removed |-> 0]
        /\ cmdInput' = [NoInput EXCEPT !.name = name]
        /\ IF e.result # "Ok"
           THEN cmdResult' = e.result /\ UNCHANGED <<catalog, shellFile>>
           ELSE \E y \in {sync_aliases(e.aliases)} :
                    /\ catalog' = e.aliases
                    /\ shellFile' = y.file
                    /\ cmdResult' = y.result
        /\ UNCHANGED <<shellDirExists, dvars, hvars, pvars, svars, kvars, ivars>>

RECURSIVE add_new_overwrite(_, _)
add_new_overwrite(aliases, entries) ==
    IF entries = <<>> THEN aliases
    ELSE add_new_overwrite(
             IF exists(aliases, Head(entries).name)
             THEN [aliases EXCEPT ![position(aliases, Head(entries).name)] = Head(entries)]
             ELSE store_add(aliases, Head(entries)).aliases,
             Tail(entries))

\* the loop of import and of migrate: each entry whose name is not in the
\* store yet is added, the others are skipped
RECURSIVE add_new(_, _)
add_new(aliases, entries) ==
    IF entries = <<>> THEN aliases
    ELSE add_new(
             IF exists(aliases, Head(entries).name)
             THEN aliases
             ELSE store_add(aliases, Head(entries)).aliases,
             Tail(entries))

\* alx import FILE, the file being [readable, aliases]: aliases is None for a
\* content that is neither JSON nor TOML of an AliasStore
Import(file) ==
    LET entries == IF file.readable /\ file.aliases.some THEN file.aliases.value ELSE <<>>
    IN  \E merged \in {add_new(catalog, entries)} :
        /\ Len(merged) <= MaxAliases
        /\ lastCmd' = [op |-> "import", removed |-> 0]
        /\ cmdInput' = [NoInput EXCEPT !.read = file.readable /\ file.aliases.some,
                                       !.entries = entries]
        /\ IF ~file.readable
           THEN cmdResult' = "IoError" /\ UNCHANGED <<catalog, shellFile>>
           ELSE IF ~file.aliases.some
           THEN cmdResult' = "SerializationError" /\ UNCHANGED <<catalog, shellFile>>
           ELSE \E y \in {sync_aliases(merged)} :
                    /\ catalog' = merged
                    /\ shellFile' = y.file
                    /\ cmdResult' = y.result
        /\ UNCHANGED <<shellDirExists, dvars, hvars, pvars, svars, kvars, ivars>>

\* the aliases migrate makes of the parsed pairs (Alias::new)
RECURSIVE NewAliases(_)
NewAliases(pairs) ==
    IF pairs = <<>> THEN <<>>
    ELSE <<Alias(Head(pairs)[1], Head(pairs)[2], None, None)>> \o NewAliases(Tail(pairs))

migrate_always_saves(aliases, from, file) ==
    LET d == IF from.some THEN detect_from_path(from.value)
             ELSE detect(envShell, unix, psOk, selfComm, parentComm).result
    IN  IF d.kind # "Ok"
        THEN [result |-> d.kind, aliases |-> aliases, saved |-> FALSE,
              read |-> FALSE, entries |-> <<>>]
        ELSE IF ~file.exists
        THEN [result |-> "ConfigError", aliases |-> aliases, saved |-> FALSE,
              read |-> FALSE, entries |-> <<>>]
        ELSE LET entries == NewAliases(parse_existing(d.shell, file.text)) IN
             [result |-> "Ok", aliases |-> add_new(aliases, entries), saved |-> TRUE,
              read |-> TRUE, entries |-> entries]

\* migrate up to its save: [result, aliases, saved, read, entries]; saved
\* tells that save and sync_aliases follow, read that the file was parsed
migrate(aliases, from, file) ==
    LET d == IF from.some THEN detect_from_path(from.value)
             ELSE detect(envShell, unix, psOk, selfComm, parentComm).result
    IN  IF d.kind # "Ok"
        THEN [result |-> d.kind, aliases |-> aliases, saved |-> FALSE,
              read |-> FALSE, entries |-> <<>>]
        ELSE IF ~file.exists
        THEN [result |-> "ConfigError", aliases |-> aliases, saved |-> FALSE,
              read |-> FALSE, entries |-> <<>>]
        ELSE LET entries == NewAliases(parse_existing(d.shell, file.text)) IN
             IF entries = <<>>
             THEN [result |-> "Ok", aliases |-> aliases, saved |-> FALSE,
                   read |-> TRUE, entries |-> entries]
             ELSE [result |-> "Ok", aliases |-> add_new(aliases, entries), saved |-> TRUE,
                   read |-> TRUE, entries |-> entries]

\* alx migrate [--from PATH], file being the config file: [exists, text]
Migrate(from, file) ==
    \E m \in {migrate(catalog, from, file)} :
        /\ Len(m.aliases) <= MaxAliases
        /\ lastCmd' = [op |-> "migrate", removed |-> 0]
        /\ cmdInput' = [NoInput EXCEPT !.read = m.read, !.entries = m.entries]
        /\ IF ~m.saved
           THEN cmdResult' = m.result /\ UNCHANGED <<catalog, shellFile>>
           ELSE \E y \in {sync_aliases(m.aliases)} :
                    /\ catalog' = m.aliases
                    /\ shellFile' = y.file
                    /\ cmdResult' = y.result
        /\ UNCHANGED <<shellDirExists, dvars, hvars, pvars, svars, kvars, ivars>>

\* the names, commands and groups given on the command line
ArgNames ==
    {<<"l", "l">>, <<"g">>, <<"_", "x", "-", "1">>, <<"9", "x">>, <<"-", "x">>,
     <<"x", ".", "y">>, <<"m", "y", " ", "a", "l", "i", "a", "s">>, <<>>}
RemoveNames == {<<"l", "l">>, <<"g">>}
ArgCommands == {<<"i", "t", "'", "s">>, <<" ">>}

\* the arguments given to add: every name with the command ls -la and no
\* group, but g, which comes with the other commands and the group git
AddArgs ==
    { [name |-> n, command |-> <<"l", "s", " ", "-", "l", "a">>, group |-> None] :
        n \in ArgNames \ {<<"g">>} }
      \cup { [name |-> <<"g">>, command |-> c, group |-> Some(<<"g", "i", "t">>)] :
                c \in ArgCommands }

PWD == <<"p", "w", "d">>
GIT == <<"g", "i", "t">>

\* the files given to import: [readable, aliases]
ImportFiles ==
    { [readable |-> FALSE, aliases |-> None],
      [readable |-> TRUE, aliases |-> None],
      [readable |-> TRUE, aliases |-> Some(<<>>)],
      [readable |-> TRUE,
       aliases |-> Some(<<Alias(<<"l", "l">>, PWD, Some(<<"d">>), None),
                          Alias(<<"g">>, GIT, None, Some(GIT)),
                          Alias(<<"g">>, PWD, None, None)>>)],
      [readable |-> TRUE, aliases |-> Some(<<Alias(<<"m", "y", " ", "a", "l", "i", "a", "s">>, PWD, None, None)>>)],
      [readable |-> TRUE, aliases |-> Some(<<Alias(<<"b">>, <<" ">>, None, None)>>)] }

\* the texts of the config files given to migrate
PosixText ==
    JoinLines(<<<<"#", " ", "m", "y", " ", "a", "l", "i", "a", "s", "e", "s">>,
                <<"a", "l", "i", "a", "s", " ", "l", "l", "=", "'", "p", "w", "d", "'">>,
                <<"a", "l", "i", "a", "s", " ", "v", "=", "\"", "g", "i", "t", "\"">>,
                <<"a", "l", "i", "a", "s", " ", "l", "l", "=", "'", "g", "i", "t", "'">>>>)
NoAliasText ==
    JoinLines(<<<<"#", " ", "m", "y", " ", "a", "l", "i", "a", "s", "e", "s">>,
                <<"e", "x", "p", "o", "r", "t", " ", "F", "O", "O", "=", "b", "a", "r">>>>)
EmptyCommandText == JoinLines(<<<<"a", "l", "i", "a", "s", " ", "b", "=", "'", "'">>>>)
FishText ==
    JoinLines(<<<<"a", "l", "i", "a", "s", " ", "l", "l", " ", "'", "p", "w", "d", "'">>>>)

\* what migrate is given: the --from path, if any, and the config file
MigrateSources ==
    { [from |-> None, file |-> [exists |-> TRUE, text |-> PosixText]],
      [from |-> Some(JoinPath(<<<<>>, HOME, <<"u">>, BASHRC>>)),
       file |-> [exists |-> TRUE, text |-> PosixText]],
      [from |-> Some(JoinPath(<<<<>>, HOME, <<"u">>, BASHRC>>)),
       file |-> [exists |-> TRUE, text |-> NoAliasText]],
      [from |-> Some(JoinPath(<<<<>>, HOME, <<"u">>, BASHRC>>)),
       file |-> [exists |-> FALSE, text |-> <<>>]],
      [from |-> Some(JoinPath(<<<<>>, HOME, <<"u">>, NOTES>>)),
       file |-> [exists |-> TRUE, text |-> PosixText]],
      [from |-> Some(JoinPath(<<<<>>, HOME, <<"u">>, ZSHRC>>)),
       file |-> [exists |-> TRUE, text |-> EmptyCommandText]],
      [from |-> Some(JoinPath(<<HOME, FISH, CONFIG_FISH>>)),
       file |-> [exists |-> TRUE, text |-> FishText]] }

\* the arguments given to edit
EditArgs ==
    { [name |-> <<"l", "l">>, command |-> Some(PWD), description |-> Some(<<"d">>),
       group |-> None],
      [name |-> <<"l", "l">>, command |-> Some(<<" ">>), description |-> Some(<<"d">>),
       group |-> None],
      [name |-> <<"g">>, command |-> None, description |-> None, group |-> Some(GIT)],
      [name |-> <<"z">>, command |-> Some(PWD), description |-> None, group |-> None] }

\* the values of SHELL commands are run under
RunShells ==
    { [present |-> FALSE, value |-> <<>>] }
        \cup { [present |-> TRUE, value |-> v] :
                 v \in ExampleShells \cup {JoinPath(<<<<>>, BIN, BASH>>), FISH} }

Init ==
    /\ envShell \in RunShells
    /\ unix = TRUE
    /\ psOk = TRUE
    /\ selfComm = ALX
    /\ parentComm = ZSH
    /\ detectResult = ShellDetectionFailed
    /\ psQueried = "none"
    /\ dpc = "idle"
    /\ HandlerIdle
    /\ catalog = <<>>
    /\ shellFile = [exists |-> FALSE, text |-> <<>>]
    /\ shellDirExists \in BOOLEAN
    /\ ~shellDirExists => envShell.value = JoinPath(<<<<>>, USR, BIN, ZSH>>)
    /\ cmdResult = "none"
    /\ lastCmd = [op |-> "none", removed |-> 0]
    /\ cmdInput = NoInput
    /\ PathIdle
    /\ StoreIdle
    /\ ProcIdle
    /\ InitIdle

AddStep ==
    \E a \in AddArgs : Add(a.name, a.command, None, a.group)

RemoveStep ==
    \E names \in SeqsUpTo(RemoveNames, MaxRemove) : Remove(names)

EditStep ==
    \E e \in EditArgs : Edit(e.name, e.command, e.description, e.group)

ImportStep ==
    \E file \in ImportFiles : Import(file)

MigrateStep ==
    \E src \in MigrateSources : Migrate(src.from, src.file)

Next == AddStep \/ RemoveStep \/ EditStep \/ ImportStep \/ MigrateStep

Spec == Init /\ [][Next]_vars

\* the last command ran sync_aliases to its end
Synced ==
    /\ cmdResult = "Ok"
    /\ lastCmd.op = "add" \/ (lastCmd.op = "remove" /\ lastCmd.removed > 0)

C3_EmptyWitness ==
    /\ Synced
    /\ lastCmd.op = "remove"
    /\ catalog = <<>>
    /\ shellFile.text = Header

\* C13: a migrate that read its config file and recognized no alias in it
\* returns success and writes neither the catalog nor the shell aliases
\* file.
C13_EmptyMigrationNoOp ==
    [][(lastCmd'.op = "migrate" /\ cmdInput'.read /\ cmdInput'.entries = <<>>) =>
           /\ cmdResult' = "Ok"
           /\ catalog' = catalog
           /\ shellFile' = shellFile]_vars

\* such a migrate where a write would have shown: the catalog holds an alias
\* and the shell aliases file cannot be written
C13_Witness ==
    /\ lastCmd.op = "migrate"
    /\ cmdInput.read
    /\ cmdInput.entries = <<>>
    /\ cmdResult = "Ok"
    /\ catalog # <<>>
    /\ ~shellDirExists
    /\ ~shellFile.exists

\* C14: every alias in the persisted catalog has a name that is non-empty,
\* has no whitespace and passes validate_name, and a command that is not
\* empty and passes validate_command, whatever add, edit, remove, import and
\* migrate commands were run from the empty catalog.
C14_RecordInvariant ==
    \A i \in 1..Len(catalog) :
        /\ catalog[i].name # <<>>
        /\ \A k \in 1..Len(catalog[i].name) : catalog[i].name[k] \notin Whitespace
        /\ validate_name(catalog[i].name) = "Ok"
        /\ catalog[i].command # <<>>
        /\ validate_command(catalog[i].command) = "Ok"

\* an import that put a name with a blank in it into the catalog
C14_ImportedBadName ==
    /\ lastCmd.op = "import"
    /\ cmdResult = "Ok"
    /\ \E i \in 1..Len(catalog) : \E k \in 1..Len(catalog[i].name) : catalog[i].name[k] = " "

\* C19: validate_name accepts a name exactly when it is not empty, starts
\* with a letter or an underscore and is made of letters, digits,
\* underscores and hyphens; every other name fails with InvalidAliasName,
\* and an add whose name or command fails validation stores nothing.
C19_NameRule ==
    [][lastCmd'.op = "add" =>
           LET name == cmdInput'.name
               wellFormed ==
                   /\ name # <<>>
                   /\ name[1] \in Letters \cup {"_"}
                   /\ \A i \in 1..Len(name) : name[i] \in Letters \cup Digits \cup {"_", "-"}
           IN  /\ (validate_name(name) = "Ok") <=> wellFormed
               /\ ~wellFormed =>
                      /\ validate_name(name) = "InvalidAliasName"
                      /\ cmdResult' = "InvalidAliasName"
               /\ wellFormed => cmdResult' # "InvalidAliasName"
               /\ cmdResult' \in {"InvalidAliasName", "InvalidCommand"} =>
                      catalog' = catalog /\ shellFile' = shellFile]_vars

\* an add of the name 9x turned down, the catalog keeping its one alias
C19_Witness ==
    /\ lastCmd.op = "add"
    /\ cmdInput.name = <<"9", "x">>
    /\ cmdResult = "InvalidAliasName"
    /\ Len(catalog) = 1
    /\ catalog[1].name = <<"l", "l">>

\* an add of a blank command turned down
C19_CommandWitness ==
    /\ lastCmd.op = "add"
    /\ cmdInput.name = <<"g">>
    /\ cmdResult = "InvalidCommand"
    /\ Len(catalog) = 1
    /\ catalog[1].name = <<"l", "l">>

\* C20: import and migrate skip and never overwrite: of the incoming
\* entries, taken in order, exactly those are appended whose name is neither
\* in the catalog nor on an earlier entry, and every alias that was in the
\* catalog keeps its fields and its position.
C20_SkipNeverOverwrite ==
    [][(lastCmd'.op \in {"import", "migrate"} /\ cmdInput'.read) =>
           LET entries == cmdInput'.entries
               kept == { j \in 1..Len(entries) :
                           /\ \A i \in 1..Len(catalog) : catalog[i].name # entries[j].name
                           /\ \A k \in 1..(j - 1) : entries[k].name # entries[j].name }
               nth(i) == CHOOSE j \in kept : Cardinality({ k \in kept : k <= j }) = i
           IN  /\ Len(catalog') = Len(catalog) + Cardinality(kept)
               /\ \A i \in 1..Len(catalog) : catalog'[i] = catalog[i]
               /\ \A i \in 1..Cardinality(kept) :
                      catalog'[Len(catalog) + i] = entries[nth(i)]]_vars

\* an import of ll, g and g again into a catalog that had ll: ll keeps its
\* command, the first g is appended, the second is skipped
C20_Witness ==
    /\ lastCmd.op = "import"
    /\ cmdInput.read
    /\ Len(cmdInput.entries) = 3
    /\ cmdInput.entries[1].name = <<"l", "l">>
    /\ Len(catalog) = 2
    /\ catalog[1].name = <<"l", "l">>
    /\ catalog[1].command = <<"l", "s", " ", "-", "l", "a">>
    /\ catalog[1].command # cmdInput.entries[1].command
    /\ catalog[2] = cmdInput.entries[2]
    /\ cmdInput.entries[3].name = catalog[2].name
    /\ cmdInput.entries[3].command # catalog[2].command

\* a migrate of a config file that declares ll, v and ll again, into a
\* catalog that had ll: ll keeps its command and v is appended
C20_MigrateWitness ==
    /\ lastCmd.op = "migrate"
    /\ cmdInput.read
    /\ Len(cmdInput.entries) = 3
    /\ Len(catalog) = 2
    /\ catalog[1].name = <<"l", "l">>
    /\ catalog[1].command = <<"l", "s", " ", "-", "l", "a">>
    /\ catalog[2].name = <<"v">>

\* C21: add is all-or-nothing for the persisted catalog: an add that returns
\* an error, be it from validation, from a name already taken or from
\* regenerating the shell aliases file, leaves the catalog as it was.
C21_AddAllOrNothing ==
    [][(lastCmd'.op = "add" /\ cmdResult' # "Ok") => catalog' = catalog]_vars

\* an add that failed with UnsupportedShell or ShellDetectionFailed and
\* whose alias is in the catalog all the same
C21_SavedThenFailed ==
    /\ lastCmd.op = "add"
    /\ cmdResult \in {"UnsupportedShell", "ShellDetectionFailed"}
    /\ exists(catalog, cmdInput.name)
    /\ ~shellFile.exists

\* the last command is one that regenerates the shell aliases file on its
\* way to success: add, edit, import, a remove that removed an alias, a
\* migrate that recognized one
Regenerating ==
    \/ lastCmd.op \in {"add", "edit", "import"}
    \/ lastCmd.op = "remove" /\ lastCmd.removed > 0
    \/ lastCmd.op = "migrate" /\ cmdInput.read /\ cmdInput.entries # <<>>

\* C22: catalog and generated file stay in step: after a successful add,
\* edit, import, remove of at least one alias or migrate of at least one
\* recognized alias, the shell aliases file is generate_aliases_file of all
\* the aliases of the persisted catalog, in catalog order, in the dialect
\* detect() returns.
C22_CatalogAndFileInStep ==
    (Regenerating /\ cmdResult = "Ok") =>
        LET d == detect(envShell, unix, psOk, selfComm, parentComm).result
        IN  /\ d.kind = "Ok"
            /\ shellFile.exists
            /\ shellFile.text = generate_aliases_file(d.shell, catalog)

\* an edit of ll in a catalog of two under fish: the file has the new
\* command of ll and the line of the other alias, in fish's form
C22_Witness ==
    /\ lastCmd.op = "edit"
    /\ cmdResult = "Ok"
    /\ envShell.value = FISH
    /\ Len(catalog) = 2
    /\ catalog[1].name = <<"l", "l">>
    /\ catalog[1].command = PWD
    /\ SplitLines(shellFile.text)[Len(SplitLines(Header)) + 1]
           = ALIAS_KW \o <<"l", "l", " ", "'", "p", "w", "d", "'">>
    /\ Len(SplitLines(shellFile.text)) = Len(SplitLines(Header)) + 2

\* a migrate from a fish config file under zsh whose one alias was in the
\* catalog already: nothing is added and the file is written in zsh's form
C22_MigrateWitness ==
    /\ lastCmd.op = "migrate"
    /\ cmdResult = "Ok"
    /\ envShell.value = JoinPath(<<<<>>, USR, BIN, ZSH>>)
    /\ cmdInput.read
    /\ Len(cmdInput.entries) = 1
    /\ Len(catalog) = 2
    /\ catalog[1].name = <<"l", "l">>
    /\ catalog[1].command # cmdInput.entries[1].command
    /\ shellFile.text = generate_aliases_file("Zsh", catalog)

\* name is one of the names given to the last remove
Listed(names, name) == \E k \in 1..Len(names) : names[k] = name

\* the aliases whose name is not among names, in their order
Unlisted(aliases, names) == SelectSeq(aliases, LAMBDA a : ~Listed(names, a.name))

C25_NoneRemovedWitness ==
    /\ lastCmd.op = "remove"
    /\ cmdInput.names = <<<<"g">>>>
    /\ lastCmd.removed = 0
    /\ cmdResult = "ConfigError"
    /\ Len(catalog) = 1
    /\ ~shellFile.exists

\* the empty list on a catalog of one alias: success, nothing changed
C25_EmptyListWitness ==
    /\ lastCmd.op = "remove"
    /\ cmdInput.names = <<>>
    /\ cmdResult = "Ok"
    /\ Len(catalog) = 1

\* an alias was removed and regenerating failed: remove returns the error
C25_SyncErrorWitness ==
    /\ lastCmd.op = "remove"
    /\ lastCmd.removed = 1
    /\ cmdResult = "UnsupportedShell"
    /\ catalog = <<>>
    /\ ~shellFile.exists

----------------------------------------------------------------------------
(* Two alx add processes side by side (command.rs add, sync_aliases)       *)

\* the processes
Procs == {1, 2}

\* the names the two processes add, and an alias the catalog may hold before
ConcNames == {<<"l", "l">>, <<"g">>}
OLD_ALIAS == Alias(<<"v">>, GIT, None, None)

LS_LA == <<"l", "s", " ", "-", "l", "a">>

ConcurrentInit ==
    /\ envShell \in RunShells
    /\ unix = TRUE
    /\ psOk = TRUE
    /\ selfComm = ALX
    /\ parentComm = ZSH
    /\ detectResult = ShellDetectionFailed
    /\ psQueried = "none"
    /\ dpc = "idle"
    /\ HandlerIdle
    /\ catalog \in {<<>>, <<OLD_ALIAS>>}
    /\ shellFile = [exists |-> FALSE, text |-> <<>>]
    /\ shellDirExists \in BOOLEAN
    /\ ~shellDirExists => envShell.value = JoinPath(<<<<>>, USR, BIN, ZSH>>)
    /\ cmdResult = "none"
    /\ lastCmd = [op |-> "none", removed |-> 0]
    /\ cmdInput = NoInput
    /\ PathIdle
    /\ StoreIdle
    /\ proc \in [Procs -> { [pc |-> "load", name |-> n, store |-> <<>>, result |-> "none"] :
                              n \in ConcNames }]
    /\ InitIdle

\* AliasStore::load of aliases.toml into the memory of process p
\* (validation, which reads no file, has passed)
AddLoad(p) ==
    /\ proc[p].pc = "load"
    /\ proc' = [proc EXCEPT ![p].store = catalog, ![p].pc = "save"]
    /\ UNCHANGED <<dvars, hvars, cvars, pvars, svars, ivars>>

\* store.add on the store p loaded and, when the name was free in it,
\* store.save: aliases.toml is overwritten with p's store
AddSave(p) ==
    LET a == store_add(proc[p].store, Alias(proc[p].name, LS_LA, None, None))
    IN  /\ proc[p].pc = "save"
        /\ IF a.result # "Ok"
           THEN /\ proc' = [proc EXCEPT ![p].result = a.result, ![p].pc = "done"]
                /\ UNCHANGED catalog
           ELSE /\ proc' = [proc EXCEPT ![p].store = a.aliases, ![p].pc = "sync"]
                /\ catalog' = a.aliases
        /\ UNCHANGED <<shellFile, shellDirExists, cmdResult, lastCmd, cmdInput>>
        /\ UNCHANGED <<dvars, hvars, pvars, svars, ivars>>

\* sync_aliases up to detect(): aliases.toml is loaded again
SyncLoad(p) ==
    LET d == detect(envShell, unix, psOk, selfComm, parentComm).result
    IN  /\ proc[p].pc = "sync"
        /\ IF d.kind # "Ok"
           THEN proc' = [proc EXCEPT ![p].store = catalog, ![p].result = d.kind,
                                     ![p].pc = "done"]
           ELSE proc' = [proc EXCEPT ![p].store = catalog, ![p].pc = "write"]
        /\ UNCHANGED <<dvars, hvars, cvars, pvars, svars, ivars>>

\* the rest of sync_aliases: shell/aliases.sh is overwritten with the file
\* generated from the store p loaded, and add returns
SyncWrite(p) ==
    LET d == detect(envShell, unix, psOk, selfComm, parentComm).result
    IN  /\ proc[p].pc = "write"
        /\ IF ~shellDirExists
           THEN /\ proc' = [proc EXCEPT ![p].result = "IoError", ![p].pc = "done"]
                /\ UNCHANGED shellFile
           ELSE /\ proc' = [proc EXCEPT ![p].result = "Ok", ![p].pc = "done"]
                /\ shellFile' = [exists |-> TRUE,
                                 text |-> generate_aliases_file(d.shell, proc[p].store)]
        /\ UNCHANGED <<catalog, shellDirExists, cmdResult, lastCmd, cmdInput>>
        /\ UNCHANGED <<dvars, hvars, pvars, svars, ivars>>

ConcurrentNext ==
    \E p \in Procs : AddLoad(p) \/ AddSave(p) \/ SyncLoad(p) \/ SyncWrite(p)

SpecConcurrent == ConcurrentInit /\ [][ConcurrentNext]_vars

\* both processes are done, both returned success and their names differ
BothAdded ==
    /\ \A p \in Procs : proc[p].pc = "done" /\ proc[p].result = "Ok"
    /\ proc[1].name # proc[2].name

\* the shell aliases file declares the alias called name
Declares(name) ==
    LET d == detect(envShell, unix, psOk, selfComm, parentComm).result
        pairs == parse_existing(d.shell, shellFile.text)
    IN  \E i \in 1..Len(pairs) : pairs[i][1] = name

\* C23: no lost update between two add commands run as separate processes
\* with distinct new names: when both return success, whatever the
\* interleaving of their load, save and shell-file-write steps, the
\* persisted catalog holds both aliases and the shell aliases file declares
\* both.
C23_NoLostUpdate ==
    BothAdded =>
        \A p \in Procs : exists(catalog, proc[p].name) /\ Declares(proc[p].name)

\* both adds returned success and the catalog lacks the alias of process 1
C23_LostUpdate ==
    /\ BothAdded
    /\ ~exists(catalog, proc[1].name)
    /\ exists(catalog, proc[2].name)

\* the interleavings that do keep both: both adds returned success and
\* catalog and file have both aliases
C23_BothKept ==
    /\ BothAdded
    /\ \A p \in Procs : exists(catalog, proc[p].name) /\ Declares(proc[p].name)

----------------------------------------------------------------------------
(* alx init (command.rs init, config/manager.rs)                           *)

\* the display of config_manager.shell_aliases_file()
ALIASES_PATH ==
    <<"/", "c", "/", "a", "l", "x", "/", "s", "h", "e", "l", "l", "/",
      "a", "l", "i", "a", "s", "e", "s", ".", "s", "h">>

SOURCE_KW == <<"s", "o", "u", "r", "c", "e", " ">>
COMMENT_BLOCK ==
    <<"\n", "#", " ", "a", "l", "x", " ", "-", " ", "a", "l", "i", "a", "s", " ",
      "m", "a", "n", "a", "g", "e", "r", "\n">>
DEFAULT_MARK == <<" ", "(", "d", "e", "f", "a", "u", "l", "t", ")">>

\* the dialects in the order init offers them
AllShells == <<"Bash", "Zsh", "Fish">>

\* the items of the shell prompt: the detected dialect first, marked as the
\* default, then the others
shell_options(default) ==
    (IF default.some THEN <<as_str(default.value) \o DEFAULT_MARK>> ELSE <<>>)
        \o [i \in 1..Len(SelectSeq(AllShells, LAMBDA s : Some(s) # default)) |->
               as_str(SelectSeq(AllShells, LAMBDA s : Some(s) # default)[i])]

\* the dialect of the item picked, selection counting from 0
selected_shell(selection, default) ==
    IF selection = 0 /\ default.some THEN default.value
    ELSE LET shell_name == FirstWord(shell_options(default)[selection + 1]) IN
         IF shell_name = BASH THEN "Bash"
         ELSE IF shell_name = ZSH THEN "Zsh"
         ELSE IF shell_name = FISH THEN "Fish"
         ELSE "unreachable"

\* the line that sources the shell aliases file
source_line(shell) ==
    IF shell = "Fish" THEN SOURCE_KW \o <<SQ>> \o ALIASES_PATH \o <<SQ>>
    ELSE <<"[", " ", "-", "f", " ", SQ>> \o ALIASES_PATH \o <<SQ, " ", "]", " ", "&", "&", " ">>
             \o SOURCE_KW \o <<SQ>> \o ALIASES_PATH \o <<SQ>>

add_source_line_always(file_content, line) ==
    [write   |-> TRUE,
     content |-> file_content
                    \o (IF file_content # <<>> /\ file_content[Len(file_content)] # "\n"
                        THEN <<"\n">> ELSE <<>>)
                    \o COMMENT_BLOCK \o line \o <<"\n">>]

\* what init makes of the content of the config file: nothing to write when
\* the line occurs in it, else the content, ended by a line feed, then the
\* comment and the line
add_source_line(file_content, line) ==
    IF Contains(file_content, line) THEN [write |-> FALSE, content |-> file_content]
    ELSE [write   |-> TRUE,
          content |-> file_content
                         \o (IF file_content # <<>> /\ file_content[Len(file_content)] # "\n"
                             THEN <<"\n">> ELSE <<>>)
                         \o COMMENT_BLOCK \o line \o <<"\n">>]

\* fs::read_to_string: an error for a content that is not valid UTF-8
read_to_string(file) ==
    IF \E i \in 1..Len(file.text) : file.text[i] = BadByte THEN None ELSE Some(file.text)

\* the outcome of init when alx is not initialized yet: selection is the
\* answer to the shell prompt and confirm the answer to the question
\* whether to add the line (None: the prompt failed), pathOk tells whether
\* the handler could name its config file; [shell, confirmed, result,
\* wrote, files]
init(selection, confirm, pathOk, default, files) ==
    LET untouched(shell, confirmed, result) ==
            [shell |-> shell, confirmed |-> confirmed, result |-> result,
             wrote |-> FALSE, files |-> files]
    IN  IF ~selection.some THEN untouched("none", FALSE, "ConfigError")
        ELSE LET shell == selected_shell(selection.value, default)
                 line  == source_line(shell)
             IN  IF ~pathOk THEN untouched(shell, FALSE, "ConfigError")
                 ELSE IF ~confirm.some THEN untouched(shell, FALSE, "ConfigError")
                 ELSE IF ~confirm.value THEN untouched(shell, FALSE, "Ok")
                 ELSE LET content == IF files[shell].exists THEN read_to_string(files[shell])
                                     ELSE Some(<<>>)
                      IN  IF ~content.some THEN untouched(shell, TRUE, "IoError")
                          ELSE LET a == add_source_line(content.value, line) IN
                               IF ~a.write THEN untouched(shell, TRUE, "Ok")
                               ELSE [shell |-> shell, confirmed |-> TRUE, result |-> "Ok",
                                     wrote |-> TRUE,
                                     files |-> [files EXCEPT ![shell] =
                                                  [exists |-> TRUE, text |-> a.content]]]

\* alx init
RunInit(selection, confirm, pathOk) ==
    LET d == detect(envShell, unix, psOk, selfComm, parentComm).result
        default == IF d.kind = "Ok" THEN Some(d.shell) ELSE None
    IN  /\ IF initialized
           THEN /\ initCall' = [shell |-> "none", confirmed |-> FALSE, result |-> "Ok",
                                wrote |-> FALSE, already |-> TRUE]
                /\ UNCHANGED <<initialized, rcFiles>>
           ELSE \E r \in {init(selection, confirm, pathOk, default, rcFiles)} :
                    /\ initialized' = TRUE
                    /\ rcFiles' = r.files
                    /\ initCall' = [shell |-> r.shell, confirmed |-> r.confirmed,
                                    result |-> r.result, wrote |-> r.wrote,
                                    already |-> FALSE]
        /\ UNCHANGED <<dvars, hvars, cvars, pvars, svars, kvars>>

EXPORT_LINE == <<"e", "x", "p", "o", "r", "t", " ", "F", "O", "O", "=", "b", "a", "r">>

\* the shell config files init may find: none, an empty one, one with and
\* one without a final line feed, one that is not valid UTF-8, one init
\* added its line to before and one with the line written by hand
RcFiles(shell) ==
    { [exists |-> FALSE, text |-> <<>>],
      [exists |-> TRUE, text |-> <<>>],
      [exists |-> TRUE, text |-> EXPORT_LINE],
      [exists |-> TRUE, text |-> EXPORT_LINE \o <<"\n">>],
      [exists |-> TRUE, text |-> <<"#", " ", BadByte, "\n">>],
      [exists |-> TRUE,
       text |-> EXPORT_LINE \o <<"\n">> \o COMMENT_BLOCK \o source_line(shell) \o <<"\n">>],
      [exists |-> TRUE, text |-> <<"#", " ">> \o source_line(shell)] }

\* the answers to the shell prompt: an item, or a failure of the prompt
Selections == {None} \cup { Some(i) : i \in 0..2 }

\* the answers to the question whether to add the line
Confirmations == {None, Some(TRUE), Some(FALSE)}

SetupInit ==
    /\ envShell \in RunShells
    /\ unix = TRUE
    /\ psOk = TRUE
    /\ selfComm = ALX
    /\ parentComm = ZSH
    /\ detectResult = ShellDetectionFailed
    /\ psQueried = "none"
    /\ dpc = "idle"
    /\ HandlerIdle
    /\ CommandIdle
    /\ PathIdle
    /\ StoreIdle
    /\ ProcIdle
    /\ initialized \in BOOLEAN
    /\ rcFiles \in { f \in [ShellType -> UNION { RcFiles(s) : s \in ShellType }] :
                       \A s \in ShellType : f[s] \in RcFiles(s) }
    /\ initCall = [shell |-> "none", confirmed |-> FALSE, result |-> "none",
                   wrote |-> FALSE, already |-> FALSE]

SetupNext ==
    \E selection \in Selections, confirm \in Confirmations, pathOk \in BOOLEAN :
        RunInit(selection, confirm, pathOk)

SpecInit == SetupInit /\ [][SetupNext]_vars

\* the config file of the dialect picked is as the claim wants it after an
\* addition: it has the line, what it held before is a prefix of what it
\* holds now, and it was not written when it had the line already; the
\* config files of the other dialects are as they were
LineAdded(c) ==
    LET old  == rcFiles[c.shell]
        new  == rcFiles'[c.shell]
        line == source_line(c.shell)
    IN  /\ new.exists
        /\ Contains(new.text, line)
        /\ StartsWith(new.text, old.text)
        /\ \A s \in ShellType \ {c.shell} : rcFiles'[s] = rcFiles[s]
        /\ (old.exists /\ Contains(old.text, line)) => (rcFiles' = rcFiles /\ ~c.wrote)
        /\ c.wrote <=> rcFiles' # rcFiles

\* C26 as stated: init never damages the shell config file: when the
\* automatic addition is confirmed, the file afterwards contains the source
\* line, with its previous content as a prefix, and is not written at all
\* when it contained the line already; when alx is initialized already or
\* the user declines, the file is not touched.
C26_InitKeepsConfigFile ==
    [][/\ (initCall'.already \/ ~initCall'.confirmed) => rcFiles' = rcFiles
       /\ initCall'.confirmed => LineAdded(initCall')]_vars

\* C26, with the failure it leaves out: as stated when init returns
\* success; an init that was confirmed and fails reading the config file
\* leaves it untouched, without the line.
C26_InitKeepsConfigFileOrFails ==
    [][/\ (initCall'.already \/ ~initCall'.confirmed) => rcFiles' = rcFiles
       /\ (initCall'.confirmed /\ initCall'.result = "Ok") => LineAdded(initCall')
       /\ (initCall'.confirmed /\ initCall'.result # "Ok") =>
              /\ initCall'.result = "IoError"
              /\ rcFiles' = rcFiles]_vars

\* the line was added to a zsh config file that did not end in a line feed
C26_Witness ==
    /\ initCall.confirmed
    /\ initCall.wrote
    /\ initCall.result = "Ok"
    /\ initCall.shell = "Zsh"
    /\ rcFiles["Zsh"].text
          = EXPORT_LINE \o <<"\n">> \o COMMENT_BLOCK \o source_line("Zsh") \o <<"\n">>
    /\ rcFiles["Bash"].text = EXPORT_LINE

\* a confirmed init that found the line in the fish config file and wrote
\* nothing
C26_AlreadyThereWitness ==
    /\ initCall.confirmed
    /\ ~initCall.wrote
    /\ initCall.result = "Ok"
    /\ initCall.shell = "Fish"
    /\ rcFiles["Fish"].text
          = EXPORT_LINE \o <<"\n">> \o COMMENT_BLOCK \o source_line("Fish") \o <<"\n">>

\* a confirmed init that created the config file
C26_CreatedWitness ==
    /\ initCall.confirmed
    /\ initCall.wrote
    /\ initCall.shell = "Bash"
    /\ rcFiles["Bash"].text = COMMENT_BLOCK \o source_line("Bash") \o <<"\n">>

\* a confirmed init that could not read the config file
C26_UnreadableWitness ==
    /\ initCall.confirmed
    /\ initCall.result = "IoError"
    /\ ~Contains(rcFiles[initCall.shell].text, source_line(initCall.shell))

\* an init that found alx initialized
C26_InitializedWitness ==
    /\ initCall.already
    /\ initCall.result = "Ok"
    /\ rcFiles["Zsh"].text = EXPORT_LINE

----------------------------------------------------------------------------
(* Runs of AliasStore                                                      *)

\* most aliases in the store
MaxStore == 3

\* the aliases handed to AliasStore::add; two of them share the name ab, two
\* the group fo, one matches fo in its group alone
StoreAliases ==
    { Alias(<<"a", "b">>, <<"l", "s">>, None, Some(<<"f", "o">>)),
      Alias(<<"a", "b">>, <<"o">>, None, Some(<<"A">>)),
      Alias(<<"g">>, <<"A", "b">>, Some(<<"f", "o", "o">>), None),
      Alias(<<"F", "O", "O">>, <<"b", " ", "a">>, Some(<<"B">>), Some(<<"a", "b">>)),
      Alias(<<"x">>, <<"l", "s">>, Some(<<>>), Some(<<>>)),
      Alias(<<"f">>, <<"o">>, None, Some(<<"f", "o">>)) }

StoreNames == { a.name : a \in StoreAliases } \cup {<<"z">>}

Keywords ==
    {<<>>, <<"a">>, <<"A">>, <<"b">>, <<"f", "o">>, <<"F", "o">>, <<"l", "s">>, <<"z">>}

StoreGroups == { a.group.value : a \in { b \in StoreAliases : b.group.some } } \cup {<<"z">>}

\* AliasStore::new
StoreInit ==
    /\ store = <<>>
    /\ storeCall = [op |-> "new", arg |-> <<>>]
    /\ storeRet = [result |-> "Ok"]
    /\ DetectIdle
    /\ HandlerIdle
    /\ CommandIdle
    /\ ProcIdle
    /\ InitIdle
    /\ PathIdle

StoreAdd(alias) ==
    /\ Len(store) < MaxStore
    /\ \E r \in {store_add(store, alias)} :
           /\ store' = r.aliases
           /\ storeRet' = [result |-> r.result]
    /\ storeCall' = [op |-> "add", arg |-> alias]
    /\ UNCHANGED <<dvars, hvars, cvars, pvars, kvars, ivars>>

StoreRemove(name) ==
    /\ \E r \in {store_remove(store, name)} :
           /\ store' = r.aliases
           /\ storeRet' = [result |-> r.result, alias |-> r.alias]
    /\ storeCall' = [op |-> "remove", arg |-> name]
    /\ UNCHANGED <<dvars, hvars, cvars, pvars, kvars, ivars>>

StoreSearch(keyword) ==
    /\ storeRet' = [result |-> "Ok", found |-> search(store, keyword)]
    /\ storeCall' = [op |-> "search", arg |-> keyword]
    /\ UNCHANGED <<store, dvars, hvars, cvars, pvars, kvars, ivars>>

StoreListByGroup(group) ==
    /\ storeRet' = [result |-> "Ok", found |-> list_by_group(store, group)]
    /\ storeCall' = [op |-> "list_by_group", arg |-> group]
    /\ UNCHANGED <<store, dvars, hvars, cvars, pvars, kvars, ivars>>

StoreGroupsCall ==
    /\ storeRet' = [result |-> "Ok", groups |-> groups(store)]
    /\ storeCall' = [op |-> "groups", arg |-> <<>>]
    /\ UNCHANGED <<store, dvars, hvars, cvars, pvars, kvars, ivars>>

StoreNext ==
    \/ \E alias \in StoreAliases : StoreAdd(alias)
    \/ \E name \in StoreNames : StoreRemove(name)
    \/ \E keyword \in Keywords : StoreSearch(keyword)
    \/ \E group \in StoreGroups : StoreListByGroup(group)
    \/ StoreGroupsCall

SpecStore == StoreInit /\ [][StoreNext]_vars

\* C15: from the empty store, whatever add and remove calls were made, no two
\* aliases share a name: an add of a name that is in the store returns
\* AliasExists and leaves the list as it was, an add of a new name puts the
\* alias at the end of the list.
C15_NameIsUniqueKey ==
    [][/\ \A i, j \in 1..Len(store') : store'[i].name = store'[j].name => i = j
       /\ storeCall'.op = "add" =>
              IF \E i \in 1..Len(store) : store[i].name = storeCall'.arg.name
              THEN storeRet'.result = "AliasExists" /\ store' = store
              ELSE /\ storeRet'.result = "Ok"
                   /\ Len(store') = Len(store) + 1
                   /\ store'[Len(store')] = storeCall'.arg
                   /\ \A i \in 1..Len(store) : store'[i] = store[i]]_vars

\* an add turned down: the store holds ab with one command, the add brought
\* ab with another
C15_Witness ==
    /\ storeCall.op = "add"
    /\ storeRet.result = "AliasExists"
    /\ storeCall.arg.name = <<"a", "b">>
    /\ \E i \in 1..Len(store) :
           store[i].name = <<"a", "b">> /\ store[i].command # storeCall.arg.command
    /\ Len(store) = 2

\* C16: remove(name) takes out exactly one alias, the first called name,
\* returns it and keeps the others in their order; when no alias is called
\* name it returns AliasNotFound and leaves the store as it was, so that
\* after a successful remove no alias is called name and a second remove
\* fails.
C16_RemoveFirstMatch ==
    [][storeCall'.op = "remove" =>
           LET name == storeCall'.arg IN
           IF \E i \in 1..Len(store) : store[i].name = name
           THEN \E i \in 1..Len(store) :
                    /\ store[i].name = name
                    /\ \A j \in 1..(i - 1) : store[j].name # name
                    /\ storeRet'.result = "Ok"
                    /\ storeRet'.alias = Some(store[i])
                    /\ Len(store') = Len(store) - 1
                    /\ \A j \in 1..(i - 1) : store'[j] = store[j]
                    /\ \A j \in i..Len(store') : store'[j] = store[j + 1]
                    /\ \A j \in 1..Len(store') : store'[j].name # name
           ELSE storeRet'.result = "AliasNotFound" /\ store' = store]_vars

\* the first of three aliases removed: the other two stay, in their order
C16_Witness ==
    /\ storeCall.op = "remove"
    /\ storeCall.arg = <<"a", "b">>
    /\ storeRet.result = "Ok"
    /\ storeRet.alias.value.name = <<"a", "b">>
    /\ Len(store) = 2
    /\ store[1].name = <<"g">>
    /\ store[2].name = <<"x">>

\* the second remove of a name: not found
C16_SecondRemoveWitness ==
    /\ storeCall.op = "remove"
    /\ storeCall.arg = <<"a", "b">>
    /\ storeRet.result = "AliasNotFound"
    /\ Len(store) = 2

\* the two characters are equal but for their case
SameLetter(c, d) ==
    c = d \/ {c, d} \in {{"a", "A"}, {"b", "B"}, {"f", "F"}, {"o", "O"}}

\* the keyword occurs in the text, case ignored
OccursIgnoringCase(text, keyword) ==
    \E k \in 0..(Len(text) - Len(keyword)) :
        \A j \in 1..Len(keyword) : SameLetter(text[k + j], keyword[j])

\* C17: search(keyword) leaves the store as it is and returns, in store
\* order, exactly the aliases whose name, command or description contains
\* the keyword with case ignored; a match in the group alone does not count.
C17_SearchMatches ==
    [][storeCall'.op = "search" =>
           /\ store' = store
           /\ storeRet'.found =
                  SelectSeq(store,
                            LAMBDA a : \/ OccursIgnoringCase(a.name, storeCall'.arg)
                                       \/ OccursIgnoringCase(a.command, storeCall'.arg)
                                       \/ /\ a.description.some
                                          /\ OccursIgnoringCase(a.description.value,
                                                                storeCall'.arg))]_vars

\* a search for Fo over an alias that has fo in its group alone, one named
\* FOO and one described as foo: the last two are returned, in store order
C17_Witness ==
    /\ storeCall.op = "search"
    /\ storeCall.arg = <<"F", "o">>
    /\ Len(store) = 3
    /\ store[1].name = <<"g">>
    /\ store[2].group = Some(<<"f", "o">>) /\ store[2].name = <<"a", "b">>
    /\ store[3].name = <<"F", "O", "O">>
    /\ storeRet.found = <<store[1], store[3]>>

\* the group values in use, in ascending order
GroupOrder == <<<<>>, <<"A">>, <<"a", "b">>, <<"f", "o">>, <<"z">>>>

\* C18: groups() returns each group some alias has exactly once, in ascending
\* order, and nothing else; an alias without a group adds nothing, and
\* list_by_group of every group returned is not empty.
C18_GroupsSortedOnce ==
    storeCall.op = "groups" =>
        LET present(g) == \E i \in 1..Len(store) : store[i].group = Some(g) IN
        /\ storeRet.groups = SelectSeq(GroupOrder, present)
        /\ \A i \in 1..Len(store) :
               store[i].group.some => \E k \in 1..Len(storeRet.groups) :
                                          storeRet.groups[k] = store[i].group.value
        /\ \A k \in 1..Len(storeRet.groups) :
               list_by_group(store, storeRet.groups[k]) # <<>>

\* two aliases of group fo, added before one of group A, and one without a
\* group: A then fo
C18_Witness ==
    /\ storeCall.op = "groups"
    /\ Len(store) = 3
    /\ store[1].group = Some(<<"f", "o">>)
    /\ store[2].group = Some(<<"A">>)
    /\ store[3].group = None
    /\ storeRet.groups = <<<<"A">>, <<"f", "o">>>>

----------------------------------------------------------------------------
(* Properties of shell detection                                           *)

Supported == {BASH, ZSH, FISH}

\* seg is what follows the last '/' of v (all of v when v has no '/')
IsLastSegmentOf(seg, v) ==
    \E k \in 0..Len(v) :
        /\ seg = SubSeq(v, k + 1, Len(v))
        /\ \A i \in (k + 1)..Len(v) : v[i] # "/"
        /\ k = 0 \/ v[k] = "/"

ValidUnicode(v) == \A i \in 1..Len(v) : v[i] # BadByte

TailsOf(v) == { SubSeq(v, k + 1, Len(v)) : k \in 0..Len(v) }

\* what a candidate name decides: the shell of that name, else a failure
DecidedBy(seg, r) ==
    IF seg \in Supported
    THEN r.kind = "Ok" /\ as_str(r.shell) = seg
    ELSE r.kind = "UnsupportedShell"

ParentName == Trim(parentComm)

\* C9: detect() fails with ShellDetectionFailed only when no signal is
\* available (SHELL unset and no name from the process-table lookup), and
\* with UnsupportedShell(name) whenever a signal, SHELL or the lookup, names
\* a shell outside bash, zsh, fish.
C9_DistinctErrorKinds ==
    dpc = "done" =>
        /\ detectResult = ShellDetectionFailed =>
              (~envShell.present /\ ~(unix /\ psOk))
        /\ envShell.present =>
              \A seg \in TailsOf(envShell.value) :
                  (IsLastSegmentOf(seg, envShell.value) /\ seg \notin Supported)
                      => detectResult = UnsupportedShell(seg)
        /\ (~envShell.present /\ unix /\ psOk /\ ParentName \notin Supported)
              => detectResult = UnsupportedShell(ParentName)

\* C10: with SHELL absent on a unix build, the candidate name is the command
\* name of the parent process of alx, so a bash, zsh or fish parent is
\* detected.
C10_ParentProcessDetected ==
    (dpc = "done" /\ ~envShell.present /\ unix /\ psOk /\ ParentName \in Supported) =>
        /\ psQueried = "parent"
        /\ detectResult.kind = "Ok"
        /\ as_str(detectResult.shell) = ParentName

----------------------------------------------------------------------------
(* Handler runs: generate a file and parse it back, or parse a config file *)

\* pieces of shell configuration files, each with the pairs a bash or zsh
\* parse and a fish parse are to find in it
ChunkComment ==
    [kind |-> "text",
     lines |-> <<<<"#", " ", "m", "y", " ", "a", "l", "i", "a", "s", "e", "s">>>>,
     posix |-> <<>>,
     fish |-> <<>>]
ChunkBlank ==
    [kind |-> "text",
     lines |-> <<<<>>>>,
     posix |-> <<>>,
     fish |-> <<>>]
ChunkExport ==
    [kind |-> "text",
     lines |-> <<<<"e", "x", "p", "o", "r", "t", " ", "F", "O", "O", "=", "b", "a", "r">>>>,
     posix |-> <<>>,
     fish |-> <<>>]
ChunkSingleQuoted ==
    [kind |-> "text",
     lines |-> <<<<"a", "l", "i", "a", "s", " ", "l", "l", "=", "'", "l", "s", " ", "-", "l", "a", "'">>>>,
     posix |-> <<<<<<"l", "l">>, <<"l", "s", " ", "-", "l", "a">>>>>>,
     fish |-> <<>>]
ChunkDoubleQuoted ==
    [kind |-> "text",
     lines |-> <<<<" ", " ", "a", "l", "i", "a", "s", " ", "g", "=", "\"", "a", " ", "\\", "\"", "b", "\\", "\\", " ", "\\", "c", "\"">>>>,
     posix |-> <<<<<<"g">>, <<"a", " ", "\"", "b", "\\", " ", "\\", "c">>>>>>,
     fish |-> <<>>]
ChunkUnquoted ==
    [kind |-> "text",
     lines |-> <<<<"a", "l", "i", "a", "s", " ", "v", "=", "v", "i", "m", " ", "-", "u">>>>,
     posix |-> <<<<<<"v">>, <<"v", "i", "m", " ", "-", "u">>>>>>,
     fish |-> <<>>]
ChunkEscapedQuote ==
    [kind |-> "text",
     lines |-> <<<<"\t", "a", "l", "i", "a", "s", " ", "s", "=", "'", "i", "t", "'", "\\", "'", "'", "s", "'">>>>,
     posix |-> <<<<<<"s">>, <<"i", "t", "'", "s">>>>>>,
     fish |-> <<>>]
ChunkUnmatchedSingle ==
    [kind |-> "text",
     lines |-> <<<<"a", "l", "i", "a", "s", " ", "b", "=", "'", "x">>>>,
     posix |-> <<>>,
     fish |-> <<>>]
ChunkUnmatchedDouble ==
    [kind |-> "text",
     lines |-> <<<<"a", "l", "i", "a", "s", " ", "d", "=", "\"", "x">>>>,
     posix |-> <<>>,
     fish |-> <<>>]
ChunkUnmatchedEscape ==
    [kind |-> "text",
     lines |-> <<<<"a", "l", "i", "a", "s", " ", "e", "=", "'", "a", "'", "\\", "'", "'">>>>,
     posix |-> <<>>,
     fish |-> <<>>]
ChunkMixedStyles ==
    [kind |-> "text",
     lines |-> <<<<"a", "l", "i", "a", "s", " ", "q", "=", "'", "a", "'", "\"", "b", "\"">>>>,
     posix |-> <<>>,
     fish |-> <<>>]
ChunkBadName ==
    [kind |-> "text",
     lines |-> <<<<"a", "l", "i", "a", "s", " ", "9", "x", "=", "'", "y", "'">>>>,
     posix |-> <<>>,
     fish |-> <<>>]
ChunkFishAlias ==
    [kind |-> "text",
     lines |-> <<<<"a", "l", "i", "a", "s", " ", "l", "l", " ", "'", "l", "s", " ", "-", "l", "a", "'">>>>,
     posix |-> <<>>,
     fish |-> <<<<<<"l", "l">>, <<"l", "s", " ", "-", "l", "a">>>>>>]
ChunkFishFunction ==
    [kind |-> "text",
     lines |-> <<<<"f", "u", "n", "c", "t", "i", "o", "n", " ", "g", "s">>,
               <<" ", " ", " ", " ", "g", "i", "t", " ", "s", "t", "a", "t", "u", "s">>,
               <<"e", "n", "d">>>>,
     posix |-> <<>>,
     fish |-> <<<<<<"g", "s">>, <<"g", "i", "t", " ", "s", "t", "a", "t", "u", "s">>>>>>]
ChunkFishControlFlow ==
    [kind |-> "text",
     lines |-> <<<<"f", "u", "n", "c", "t", "i", "o", "n", " ", "m">>,
               <<" ", " ", "i", "f", " ", "t", "r", "u", "e">>,
               <<" ", " ", " ", " ", "e", "c", "h", "o", " ", "a">>,
               <<" ", " ", "e", "n", "d">>,
               <<"e", "n", "d">>>>,
     posix |-> <<>>,
     fish |-> <<>>]
ChunkFishTwoStatements ==
    [kind |-> "text",
     lines |-> <<<<"f", "u", "n", "c", "t", "i", "o", "n", " ", "w">>,
               <<" ", " ", "a", "l", "i", "a", "s", " ", "z", " ", "'", "y", "'">>,
               <<" ", " ", "e", "c", "h", "o", " ", "b">>,
               <<"e", "n", "d">>>>,
     posix |-> <<>>,
     fish |-> <<>>]
TextChunks ==
    {ChunkComment,
     ChunkBlank,
     ChunkExport,
     ChunkSingleQuoted,
     ChunkDoubleQuoted,
     ChunkUnquoted,
     ChunkEscapedQuote,
     ChunkUnmatchedSingle,
     ChunkUnmatchedDouble,
     ChunkUnmatchedEscape,
     ChunkMixedStyles,
     ChunkBadName,
     ChunkFishAlias,
     ChunkFishFunction,
     ChunkFishControlFlow,
     ChunkFishTwoStatements}

\* the command of the documented example: it's "quoted"
ExampleCommand == <<"i", "t", "'", "s", " ", "\"", "q", "u", "o", "t", "e", "d", "\"">>

\* the characters commands are made of
CmdChars == {"a", SQ, DQ, BS, "|", " "}

\* longest command tried, in characters
MaxCmdLen == 3

\* most aliases in a generated file
MaxRecords == 2

\* most chunks in a config file
MaxChunks == 2

\* validate_command accepts a command that is not blank
Commands ==
    { c \in SeqsUpTo(CmdChars, MaxCmdLen) : Trim(c) # <<>> } \cup {ExampleCommand}

Names == {<<"l", "l">>, <<"g">>, <<"_", "x", "-", "1">>}

Records == { [name |-> n, command |-> c] : n \in Names, c \in Commands }

\* a few records to build longer files from
FewRecords ==
    { [name |-> <<"l", "l">>, command |-> <<"l", "s", " ", "-", "l", "a">>],
      [name |-> <<"g">>, command |-> <<"i", "t", "'", "s">>],
      [name |-> <<"_", "x", "-", "1">>, command |-> <<"a", SQ, "|">>] }

RecordLists == { <<r>> : r \in Records } \cup SeqsUpTo(FewRecords, MaxRecords)

\* a command written inside double quotes
RECURSIVE EncodeDouble(_)
EncodeDouble(c) ==
    IF c = <<>> THEN <<>>
    ELSE (IF Head(c) \in {DQ, BS} THEN <<BS, Head(c)>> ELSE <<Head(c)>>)
             \o EncodeDouble(Tail(c))

Indents == {<<>>, <<" ", "\t">>}

\* alias NAME=VALUE lines in the three value styles
StyleChunks ==
    { [kind  |-> "single",
       lines |-> << ind \o ALIAS_KW \o n \o <<"=", SQ>> \o escape_single_quotes(c) \o <<SQ>> >>,
       posix |-> << <<n, c>> >>, fish |-> <<>>] : ind \in Indents, n \in Names, c \in Commands }
    \cup
    { [kind  |-> "double",
       lines |-> << ind \o ALIAS_KW \o n \o <<"=", DQ>> \o EncodeDouble(c) \o <<DQ>> >>,
       posix |-> << <<n, c>> >>, fish |-> <<>>] : ind \in Indents, n \in Names, c \in Commands }
    \cup
    { [kind  |-> "unquoted",
       lines |-> << ind \o ALIAS_KW \o n \o <<"=">> \o c >>,
       posix |-> << <<n, c>> >>, fish |-> <<>>] :
          ind \in Indents, n \in Names, c \in { c \in Commands : Head(c) \notin {SQ, DQ} } }

\* fish function blocks around one command
FunctionChunks ==
    { [kind  |-> "function",
       lines |-> << FUNCTION_KW \o n, <<" ", " ">> \o c, END_KW >>,
       posix |-> <<>>, fish |-> << <<n, c>> >>] :
          n \in Names, c \in { c \in Commands : Head(c) # " " /\ c[Len(c)] # " " } }

\* the documented noisy file: comments, blank lines, an export and three
\* alias lines
ExampleConfig ==
    <<ChunkComment, ChunkSingleQuoted, ChunkBlank, ChunkExport, ChunkDoubleQuoted,
      ChunkUnmatchedSingle, ChunkComment, ChunkUnquoted, ChunkBlank>>

Configs ==
    SeqsUpTo(TextChunks, MaxChunks)
        \cup { <<c>> : c \in StyleChunks \cup FunctionChunks }
        \cup { <<ChunkFishControlFlow, c>> : c \in FunctionChunks }
        \cup { ExampleConfig }

RECURSIVE LinesOf(_)
LinesOf(cfg) ==
    IF cfg = <<>> THEN <<>> ELSE Head(cfg).lines \o LinesOf(Tail(cfg))

TextOf(cfg) == JoinLines(LinesOf(cfg))

HandlerInit ==
    /\ hshell \in ShellType
    /\ \/ /\ hpc = "render"
          /\ records \in RecordLists
          /\ config = <<>>
       \/ /\ hpc = "parse"
          /\ records = <<>>
          /\ config \in Configs
    /\ fileText = TextOf(config)
    /\ generated = <<>>
    /\ parsed = <<>>
    /\ DetectIdle
    /\ CommandIdle
    /\ ProcIdle
    /\ InitIdle
    /\ PathIdle
    /\ StoreIdle

\* generate_aliases_file on the records
GenerateFile ==
    /\ hpc = "render"
    /\ generated' = generate_aliases_file(hshell, records)
    /\ hpc' = "generated"
    /\ UNCHANGED <<hshell, records, config, fileText, parsed>>
    /\ UNCHANGED <<dvars, cvars, pvars, svars, kvars, ivars>>

\* the generated text parsed by the handler that generated it
ParseGenerated ==
    /\ hpc = "generated"
    /\ parsed' = parse_existing(hshell, generated)
    /\ hpc' = "reparsed"
    /\ UNCHANGED <<hshell, records, config, fileText, generated>>
    /\ UNCHANGED <<dvars, cvars, pvars, svars, kvars, ivars>>

\* a config file's text parsed
ParseConfig ==
    /\ hpc = "parse"
    /\ parsed' = parse_existing(hshell, fileText)
    /\ hpc' = "parsed"
    /\ UNCHANGED <<hshell, records, config, fileText, generated>>
    /\ UNCHANGED <<dvars, cvars, pvars, svars, kvars, ivars>>

HandlerNext == GenerateFile \/ ParseGenerated \/ ParseConfig

SpecHandlers == HandlerInit /\ [][HandlerNext]_vars

\* the pairs a parse of the config is to return, in file order
RECURSIVE Expected(_, _)
Expected(shell, cfg) ==
    IF cfg = <<>> THEN <<>>
    ELSE (IF shell = "Fish" THEN Head(cfg).fish ELSE Head(cfg).posix)
             \o Expected(shell, Tail(cfg))

PairsOf(recs) == [i \in 1..Len(recs) |-> <<recs[i].name, recs[i].command>>]

----------------------------------------------------------------------------
(* Properties of the handlers                                              *)

\* C1: for each of the three handlers and every record, parsing the text of
\* generate_aliases_file(<<record>>) with the same handler's parser gives
\* exactly the one pair (name, command).
C1_RoundTrip ==
    (hpc = "reparsed" /\ Len(records) = 1) =>
        parsed = << <<records[1].name, records[1].command>> >>

C1_Witness ==
    /\ hpc = "reparsed"
    /\ hshell = "Fish"
    /\ Len(records) = 1
    /\ records[1].command = <<BS, SQ, "|">>
    /\ parsed = << <<records[1].name, <<BS, SQ, "|">>>> >>

\* the example command as it stands in a generated line: 'it'\''s "quoted"'
ExampleQuoted == <<"'", "i", "t", "'", "\\", "'", "'", "s", " ", "\"", "q", "u", "o", "t", "e", "d", "\"", "'">>

\* number of single quotes among the first n characters of cmd
QuotesBefore(cmd, n) == Cardinality({ j \in 1..n : cmd[j] = SQ })

\* C2: the bash/zsh line of a record is alias NAME='C', C being the command
\* with every single quote replaced by the four characters '\'' and every
\* other character kept; the example it's "quoted" gives a line containing
\* 'it'\''s "quoted"' and parses back to it's "quoted".
C2_Escaping ==
    (hpc \in {"generated", "reparsed"} /\ hshell \in {"Bash", "Zsh"} /\ Len(records) = 1) =>
        LET cmd  == records[1].command
            pre  == ALIAS_KW \o records[1].name \o <<"=", SQ>>
            line == SubSeq(generated, Len(Header) + 1, Len(generated) - 1)
            C    == SubSeq(line, Len(pre) + 1, Len(line) - 1)
            at(i) == i + 3 * QuotesBefore(cmd, i - 1)
        IN  /\ StartsWith(line, pre)
            /\ line[Len(line)] = SQ
            /\ Len(C) = Len(cmd) + 3 * QuotesBefore(cmd, Len(cmd))
            /\ \A i \in 1..Len(cmd) :
                  IF cmd[i] = SQ
                  THEN SubSeq(C, at(i), at(i) + 3) = <<SQ, BS, SQ, SQ>>
                  ELSE C[at(i)] = cmd[i]
            /\ cmd = ExampleCommand =>
                  /\ Contains(line, ExampleQuoted)
                  /\ hpc = "reparsed" => (Len(parsed) = 1 /\ parsed[1][2] = ExampleCommand)

C2_Witness ==
    /\ hpc = "reparsed"
    /\ hshell = "Zsh"
    /\ Len(records) = 1
    /\ records[1].command = ExampleCommand
    /\ Contains(generated, ExampleQuoted)
    /\ parsed = << <<records[1].name, ExampleCommand>> >>

\* C4: the parse of any text is the pairs of its alias declarations, in file
\* order; comments, blank lines, other statements and malformed alias lines
\* add nothing, so the noisy file with three alias lines gives three pairs.
C4_NoiseTolerance ==
    (hpc = "parsed" /\ \A i \in 1..Len(config) : config[i].kind = "text") =>
        /\ parsed = Expected(hshell, config)
        /\ (config = ExampleConfig /\ hshell # "Fish") =>
              parsed = ChunkSingleQuoted.posix \o ChunkDoubleQuoted.posix \o ChunkUnquoted.posix

C4_Witness ==
    /\ hpc = "parsed"
    /\ hshell = "Bash"
    /\ config = ExampleConfig
    /\ Len(parsed) = 3
    /\ parsed[1][1] = ChunkSingleQuoted.posix[1][1]
    /\ parsed[3][1] = ChunkUnquoted.posix[1][1]

\* C5: the bash/zsh parser takes an indented `alias NAME=VALUE` line in three
\* styles: single-quoted with '\'' undone, double-quoted with \" and \\
\* undone, and unquoted with the rest of the line as the command.
C5_ThreeStyles ==
    (/\ hpc = "parsed"
     /\ hshell \in {"Bash", "Zsh"}
     /\ Len(config) = 1
     /\ config[1].kind \in {"single", "double", "unquoted"}) =>
        parsed = config[1].posix

C5_Witness ==
    /\ hpc = "parsed"
    /\ hshell = "Bash"
    /\ Len(config) = 1
    /\ config[1].kind = "double"
    /\ Len(parsed) = 1
    /\ parsed[1][2] = <<DQ, BS, "a">>
    /\ Contains(fileText, <<BS, DQ, BS, BS, "a">>)

FishChunks == {ChunkFishAlias, ChunkFishFunction, ChunkFishControlFlow, ChunkFishTwoStatements}

\* C6: the fish parser takes `alias NAME 'COMMAND'` lines and function
\* blocks around a single command; a block with control flow or more than
\* one statement gives no pair, and the lines after its `end` are parsed.
C6_FishIdioms ==
    (/\ hpc = "parsed"
     /\ hshell = "Fish"
     /\ \E i \in 1..Len(config) : config[i].kind = "function" \/ config[i] \in FishChunks) =>
        /\ parsed = Expected("Fish", config)
        /\ \A c \in FishChunks \cup FunctionChunks :
              (config = <<ChunkFishControlFlow, c>> \/ config = <<ChunkFishTwoStatements, c>>)
                  => parsed = c.fish

C6_Witness ==
    /\ hpc = "parsed"
    /\ hshell = "Fish"
    /\ config = <<ChunkFishControlFlow, ChunkFishFunction>>
    /\ parsed = ChunkFishFunction.fish
    /\ Len(parsed) = 1

====
